---- MODULE Spec2Model ----
(***************************************************************************)
(* Event fan-out consumers of the Phase-V todo backend: the recurrence     *)
(* consumer (services/recurring/main.py), the audit consumer               *)
(* (services/audit/main.py) and the notification consumer                  *)
(* (services/notification/main.py).  Each consumer has its own             *)
(* specification over its own part of the state.                           *)
(***************************************************************************)
EXTENDS Integers, Sequences, FiniteSets, TLC

VARIABLES
    store,          \* recurring: Dapr state store, key recurrence-<task id> -> state
    tasks,          \* recurring: tasks created through the backend task-creation API
    nextId,         \* recurring: id the backend gives to the next created task
    spawnedBy,      \* recurring: ids of the events whose handling created a task and
                    \* saved its state
                    \* (since the task's recurrence was last registered)
    recurLast,      \* recurring: what the last operation of the service did
    calc,           \* recurring: a call of calculate_next_due_date and its result
    startup,        \* audit: how the lifespan start-up went
    engine,         \* audit: the database engine (FALSE is None)
    auditLog,       \* audit: rows of the audit_log table, in insertion order
    auditDelivered, \* audit: every delivery made so far, with its answer
    auditReply,     \* audit: the last response of a read endpoint
    parsed,         \* audit: a call of parse_event_to_audit and its result
    active_connections, \* notification: user id -> set of connections (keys present only)
    wsState,        \* notification: position of each websocket_endpoint coroutine
    jobs,           \* notification: position of each event delivery (handler + send_to_user)
    received,       \* notification: number of messages each connection was sent
    enabled,        \* backend: EventPublisher.enabled (DAPR_ENABLED)
    db,             \* backend: rows of the task table, row i is the task with id i
    requests,       \* backend: the task requests handled so far, with their responses
    background,     \* backend: background tasks added and not yet started
    pubCall,        \* backend: the call of EventPublisher.publish in progress or last made
    probe,          \* backend: the call of EventPublisher.check_health in progress or
                    \* last made, and what lifespan learned
    chat_rate_limiter, \* backend: the RateLimiter of the chat route (requests: user id
                    \* -> list of timestamps)
    clock,          \* backend: the reading of time.time()
    rateLog         \* backend: the times at which each user's chat requests passed
                    \* the limiter, and the outcome of the last rate_limit_check

recurVars == <<store, tasks, nextId, spawnedBy, recurLast, calc>>
auditVars == <<startup, engine, auditLog, auditDelivered, auditReply, parsed>>
notifVars == <<active_connections, wsState, jobs, received>>
rateVars == <<chat_rate_limiter, clock, rateLog>>
backVars == <<enabled, db, requests, background, pubCall, probe, rateVars>>
vars == <<recurVars, auditVars, notifVars, backVars>>

(***************************************************************************)
(* Bounds of the model.                                                    *)
(***************************************************************************)
MaxTaskId == 3          \* task ids are 1..MaxTaskId
MaxAuditDeliveries == 3 \* deliveries made to the audit consumer
NumConns == 2            \* websocket connections that may be opened
NumJobs == 1             \* event deliveries to the notification consumer

TaskIds == 1..MaxTaskId
BaseTasks == {1}        \* tasks that exist before any occurrence is spawned
Users == {"u1", "u2"}

(***************************************************************************)
(* Dates: <<year, month, day>>.  NoDate is None / a missing key, BadDate a *)
(* string date.fromisoformat rejects.                                      *)
(***************************************************************************)
NoDate == <<>>
BadDate == <<0, 0, 0>>
Today == <<2026, 2, 10>>

IsLeap(y) == (y % 4 = 0 /\ y % 100 # 0) \/ y % 400 = 0

DaysInMonth(y, m) ==
    IF m = 2 THEN (IF IsLeap(y) THEN 29 ELSE 28)
    ELSE IF m \in {4, 6, 9, 11} THEN 30 ELSE 31

DateLT(a, b) ==
    \/ a[1] < b[1]
    \/ a[1] = b[1] /\ a[2] < b[2]
    \/ a[1] = b[1] /\ a[2] = b[2] /\ a[3] < b[3]

NextDay(d) ==
    IF d[3] < DaysInMonth(d[1], d[2]) THEN <<d[1], d[2], d[3] + 1>>
    ELSE IF d[2] < 12 THEN <<d[1], d[2] + 1, 1>>
    ELSE <<d[1] + 1, 1, 1>>

PrevDay(d) ==
    IF d[3] > 1 THEN <<d[1], d[2], d[3] - 1>>
    ELSE IF d[2] > 1 THEN <<d[1], d[2] - 1, DaysInMonth(d[1], d[2] - 1)>>
    ELSE <<d[1] - 1, 12, 31>>

\* date + timedelta(days=n), a month at a time
RECURSIVE AddDays(_, _)
AddDays(d, n) ==
    IF n = 0 THEN d
    ELSE IF n > 0
    THEN LET left == DaysInMonth(d[1], d[2]) - d[3]
         IN IF n <= left THEN <<d[1], d[2], d[3] + n>>
            ELSE AddDays(NextDay(<<d[1], d[2], DaysInMonth(d[1], d[2])>>),
                         n - left - 1)
    ELSE IF -n < d[3] THEN <<d[1], d[2], d[3] + n>>
    ELSE AddDays(PrevDay(<<d[1], d[2], 1>>), n + d[3])

Min(a, b) == IF a < b THEN a ELSE b

\* date + relativedelta(months=k): month arithmetic, day clamped to the month's end
AddMonths(d, k) ==
    LET idx == d[1] * 12 + (d[2] - 1) + k
        y == idx \div 12
        m == (idx % 12) + 1
    IN <<y, m, Min(d[3], DaysInMonth(y, m))>>

\* date + relativedelta(years=k)
AddYears(d, k) ==
    <<d[1] + k, d[2], Min(d[3], DaysInMonth(d[1] + k, d[2]))>>

Patterns == {"daily", "weekly", "biweekly", "monthly", "yearly"}

\* the computation with a month counted as 30 days and a year as 12 of them
CalculateNextDueDateFixedDays(current_due_date, pattern, interval) ==
    IF pattern = "weekly" THEN AddDays(current_due_date, 7 * interval)
    ELSE IF pattern = "biweekly" THEN AddDays(current_due_date, 7 * 2 * interval)
    ELSE IF pattern = "monthly" THEN AddDays(current_due_date, 30 * interval)
    ELSE IF pattern = "yearly" THEN AddDays(current_due_date, 30 * 12 * interval)
    ELSE AddDays(current_due_date, interval)

calculate_next_due_date(current_due_date, pattern, interval) ==
    IF pattern = "daily" THEN AddDays(current_due_date, interval)
    ELSE IF pattern = "weekly" THEN AddDays(current_due_date, 7 * interval)
    ELSE IF pattern = "biweekly" THEN AddDays(current_due_date, 7 * 2 * interval)
    ELSE IF pattern = "monthly" THEN AddMonths(current_due_date, interval)
    ELSE IF pattern = "yearly" THEN AddYears(current_due_date, interval)
    ELSE AddDays(current_due_date, interval)


(***************************************************************************)
(* Event envelopes as the gateway delivers them.  malformed: the body does *)
(* not parse (request.json() or a later field access raises).  task_id 0   *)
(* and user_id "" stand for a missing (falsy) value.                       *)
(***************************************************************************)
Ev(id, type, task_id, user_id, completed) ==
    [id |-> id, malformed |-> FALSE, type |-> type, task_id |-> task_id,
     user_id |-> user_id, completed |-> completed, changes |-> {}]

\* a task.updated event; changes: the names of the changed fields
EvUpdated(id, task_id, user_id, changes) ==
    [id |-> id, malformed |-> FALSE, type |-> "task.updated", task_id |-> task_id,
     user_id |-> user_id, completed |-> FALSE, changes |-> changes]

MalformedEv(id) ==
    [id |-> id, malformed |-> TRUE, type |-> "", task_id |-> 0,
     user_id |-> "", completed |-> FALSE, changes |-> {}]

\* the topics of the pub/sub component
TopicNames == {"task-events", "reminders", "task-updates"}

(***************************************************************************)
(* Recurrence consumer (services/recurring/main.py).                       *)
(***************************************************************************)
NoState == [absent |-> TRUE]
NoMax == -1     \* max_occurrences: Optional[int] = None

Template(title, due) ==
    [title |-> title, description |-> "", priority |-> "medium",
     category |-> "work", due_date |-> due]

\* bodies of POST /recurrence, without the task id
RecurrenceRequests ==
    { [pattern |-> "daily", interval |-> 1, end_date |-> NoDate,
       max_occurrences |-> NoMax, task_data |-> Template("Standup", <<2026, 2, 1>>)],
      [pattern |-> "weekly", interval |-> 1, end_date |-> NoDate,
       max_occurrences |-> 1, task_data |-> Template("Review", <<2026, 1, 1>>)],
      [pattern |-> "monthly", interval |-> 1, end_date |-> <<2026, 1, 31>>,
       max_occurrences |-> NoMax, task_data |-> Template("Rent", <<2026, 1, 31>>)],
      [pattern |-> "biweekly", interval |-> 2, end_date |-> <<2026, 12, 31>>,
       max_occurrences |-> 2, task_data |-> Template("Sync", NoDate)],
      [pattern |-> "yearly", interval |-> 1, end_date |-> BadDate,
       max_occurrences |-> NoMax, task_data |-> Template("Leap", <<2024, 2, 29>>)],
      [pattern |-> "monthly", interval |-> 1, end_date |-> NoDate,
       max_occurrences |-> 0, task_data |-> Template("Never", <<2026, 1, 31>>)] }

RecurEvents ==
    { Ev(<<"completed", t>>, "task.completed", t, "u1", TRUE) : t \in TaskIds }
    \cup { Ev(<<"uncompleted", 1>>, "task.uncompleted", 1, "u1", FALSE),
           Ev(<<"created", 1>>, "task.created", 1, "u1", FALSE),
           Ev(<<"nouser", 1>>, "task.completed", 1, "", TRUE),
           MalformedEv(<<"bad", 0>>) }

\* What the external collaborators do during one delivery: whether the state
\* store answers the get call and the write calls (FALSE: the call raises or
\* answers an error status, which the helpers treat alike; a delivery either
\* deletes or saves, never both), and the task-creation call.
RecurEnvs ==
    [getOk : BOOLEAN, writeOk : BOOLEAN, create : {"201", "non201", "exception"}]

\* get_recurrence_state: None on a non-200 answer or an exception
get_recurrence_state(st, task_id, ok) ==
    IF ok THEN st[task_id] ELSE NoState

\* save_recurrence_state: the write happens only when the store answers
\* lines 92-106 writing the key only when nothing is stored under it
SaveRecurrenceStateIfAbsent(st, task_id, state, ok) ==
    IF ok /\ st[task_id] = NoState THEN [st EXCEPT ![task_id] = state] ELSE st

save_recurrence_state(st, task_id, state, ok) ==
    IF ok THEN [st EXCEPT ![task_id] = state] ELSE st

delete_recurrence_state(st, task_id, ok) ==
    IF ok THEN [st EXCEPT ![task_id] = NoState] ELSE st

\* create_next_task: the created task (response.json()) on 201, else None
create_next_task(nid, user_id, td, due_date, outcome) ==
    IF outcome = "201"
    THEN <<[id |-> nid, user_id |-> user_id, title |-> td.title,
            description |-> td.description, priority |-> td.priority,
            category |-> td.category, due_date |-> due_date]>>
    ELSE <<>>

Truthy(n) == n # NoMax /\ n # 0

\* the result of one run of the handler
Outcome(status, st, created, calls, faults) ==
    [status |-> status, store |-> st, created |-> created,
     createCalls |-> calls, raised |-> faults]


\* stored value; parent_task_id 0 is a state without the key (set_recurrence)
RecurState(config, task_data, parent) ==
    [config |-> config, task_data |-> task_data, parent_task_id |-> parent]

\* lines 257-286 with the state written before the task exists
SpawnNextEager(st, nid, e, rs, env) ==
    LET config == rs.config
        task_data == rs.task_data
        current_due == IF task_data.due_date = NoDate THEN Today ELSE task_data.due_date
        next_due == calculate_next_due_date(current_due, config.pattern, config.interval)
        new_task == create_next_task(nid, e.user_id, task_data, next_due, env.create)
        bumped == RecurState(
            [config EXCEPT !.occurrences_created = config.occurrences_created + 1],
            task_data, rs.parent_task_id)
        st1 == save_recurrence_state(st, e.task_id, bumped, env.writeOk)
    IN Outcome("SUCCESS", st1, new_task, 1,
               IF env.create = "exception" THEN {"task_creation"} ELSE {})

\* lines 257-286 saving the new state with the template's due date as it was
SpawnNextStaleDue(st, nid, e, rs, env) ==
    LET config == rs.config
        task_data == rs.task_data
        current_due == IF task_data.due_date = NoDate THEN Today ELSE task_data.due_date
        next_due == calculate_next_due_date(current_due, config.pattern, config.interval)
        new_task == create_next_task(nid, e.user_id, task_data, next_due, env.create)
        new_state == RecurState(
            [config EXCEPT !.occurrences_created = config.occurrences_created + 1],
            task_data, e.task_id)
        raised == (IF env.create = "exception" THEN {"task_creation"} ELSE {})
                  \cup (IF env.create = "201" /\ ~env.writeOk THEN {"state_store"} ELSE {})
    IN IF new_task # <<>>
       THEN Outcome("SUCCESS",
                    save_recurrence_state(st, new_task[1].id, new_state, env.writeOk),
                    new_task, 1, raised)
       ELSE Outcome("SUCCESS", st, <<>>, 1, raised)

\* handle_task_events, the should_create branch: create the next occurrence and,
\* if that worked, save the new state under the new task's id
SpawnNext(st, nid, e, rs, env) ==
    LET config == rs.config
        task_data == rs.task_data
        current_due == IF task_data.due_date = NoDate THEN Today ELSE task_data.due_date
        next_due == calculate_next_due_date(current_due, config.pattern, config.interval)
        new_task == create_next_task(nid, e.user_id, task_data, next_due, env.create)
        new_state == RecurState(
            [config EXCEPT !.occurrences_created = config.occurrences_created + 1],
            [task_data EXCEPT !.due_date = next_due],
            e.task_id)
        raised == (IF env.create = "exception" THEN {"task_creation"} ELSE {})
                  \cup (IF env.create = "201" /\ ~env.writeOk THEN {"state_store"} ELSE {})
    IN IF new_task # <<>>
       THEN Outcome("SUCCESS",
                    save_recurrence_state(st, new_task[1].id, new_state, env.writeOk),
                    new_task, 1, raised)
       ELSE Outcome("SUCCESS", st, <<>>, 1, raised)

\* handle_task_events, from the state lookup on
CheckRecurrence(st, nid, e, env) ==
    LET rs == get_recurrence_state(st, e.task_id, env.getOk)
        getFault == IF env.getOk THEN {} ELSE {"state_store"}
    IN IF rs = NoState THEN Outcome("SUCCESS", st, <<>>, 0, getFault)
       ELSE IF rs.config.end_date = BadDate
       THEN Outcome("RETRY", st, <<>>, 0, {"parse"})
       ELSE
         LET config == rs.config
             endPast == config.end_date # NoDate /\ DateLT(config.end_date, Today)
             st1 == IF endPast THEN delete_recurrence_state(st, e.task_id, env.writeOk)
                    ELSE st
             maxHit == Truthy(config.max_occurrences)
                       /\ config.occurrences_created >= config.max_occurrences
             st2 == IF maxHit THEN delete_recurrence_state(st1, e.task_id, env.writeOk)
                    ELSE st1
             should_create == ~endPast /\ ~maxHit
         IN IF should_create THEN SpawnNext(st2, nid, e, rs, env)
            ELSE Outcome("SUCCESS", st2, <<>>, 0,
                         IF env.writeOk THEN {} ELSE {"state_store"})

\* the handler without its filter on the event type and the completed flag
RecurHandleUnfiltered(st, nid, e, env) ==
    IF e.malformed THEN Outcome("RETRY", st, <<>>, 0, {"parse"})
    ELSE IF e.task_id = 0 \/ e.user_id = ""
    THEN Outcome("SUCCESS", st, <<>>, 0, {})
    ELSE CheckRecurrence(st, nid, e, env)

\* POST /events/task-events of the recurring service
recur_handle_task_events(st, nid, e, env) ==
    IF e.malformed THEN Outcome("RETRY", st, <<>>, 0, {"parse"})
    ELSE IF e.type # "task.completed" THEN Outcome("SUCCESS", st, <<>>, 0, {})
    ELSE IF ~e.completed \/ e.task_id = 0 \/ e.user_id = ""
    THEN Outcome("SUCCESS", st, <<>>, 0, {})
    ELSE CheckRecurrence(st, nid, e, env)

NoEvent == MalformedEv(<<"none", 0>>)

\* raised: where an exception was raised while the operation ran
Last(op, e, status, raised, calls, created, before, redelivery) ==
    [op |-> op, event |-> e, status |-> status, raised |-> raised,
     createCalls |-> calls, created |-> created, before |-> before,
     redelivery |-> redelivery]

EmptyStore == [t \in TaskIds |-> NoState]

InitRecur ==
    /\ store = EmptyStore
    /\ tasks = <<>>
    /\ nextId = Cardinality(BaseTasks) + 1
    /\ spawnedBy = {}
    /\ recurLast = Last("init", NoEvent, "", {}, 0, 0, EmptyStore, FALSE)
    /\ calc = <<>>
    /\ startup = ""
    /\ engine = TRUE
    /\ auditLog = <<>>
    /\ auditDelivered = <<>>
    /\ auditReply = <<>>
    /\ parsed = <<>>
    /\ active_connections = <<>>
    /\ wsState = <<>>
    /\ jobs = <<>>
    /\ received = <<>>
    /\ enabled = TRUE
    /\ db = <<>>
    /\ requests = <<>>
    /\ background = <<>>
    /\ pubCall = <<>>
    /\ probe = <<>>
    /\ chat_rate_limiter = <<>>
    /\ clock = 0
    /\ rateLog = <<>>

\* the gateway delivers (or redelivers) an event to POST /events/task-events
RecurDeliver ==
    \E e \in RecurEvents, env \in RecurEnvs :
        /\ nextId <= MaxTaskId
        /\ e.task_id < nextId
        /\ LET r == recur_handle_task_events(store, nextId, e, env)
           IN /\ store' = r.store
              /\ tasks' = tasks \o r.created
              /\ nextId' = nextId + Len(r.created)
              /\ spawnedBy' = IF r.created # <<>> /\ r.raised = {}
                              THEN spawnedBy \cup {e.id}
                              ELSE spawnedBy
              /\ recurLast' = Last("deliver", e, r.status, r.raised, r.createCalls,
                                   IF r.created # <<>> THEN r.created[1].id ELSE 0,
                                   store, e.id \in spawnedBy)
        /\ UNCHANGED <<calc, auditVars, notifVars, backVars>>

\* POST /recurrence
set_recurrence ==
    \E t \in BaseTasks, req \in RecurrenceRequests, ok \in BOOLEAN :
        LET state == RecurState(
                [pattern |-> req.pattern, interval |-> req.interval,
                 end_date |-> req.end_date, max_occurrences |-> req.max_occurrences,
                 occurrences_created |-> 0],
                req.task_data, 0)
        IN /\ store' = save_recurrence_state(store, t, state, ok)
           /\ recurLast' = Last("set_recurrence", NoEvent, IF ok THEN "ok" ELSE "error",
                                IF ok THEN {} ELSE {"state_store"}, 0, 0, store, FALSE)
                            @@ [task_id |-> t, request |-> req]
           /\ spawnedBy' = IF ok THEN spawnedBy \ {<<"completed", t>>} ELSE spawnedBy
           /\ UNCHANGED <<tasks, nextId, calc, auditVars, notifVars, backVars>>

\* DELETE /recurrence/{task_id}
remove_recurrence ==
    \E t \in TaskIds, ok \in BOOLEAN :
        /\ t < nextId
        /\ store' = delete_recurrence_state(store, t, ok)
        /\ recurLast' = Last("remove_recurrence", NoEvent, IF ok THEN "ok" ELSE "error",
                             IF ok THEN {} ELSE {"state_store"}, 0, 0, EmptyStore, FALSE)
        /\ UNCHANGED <<tasks, nextId, spawnedBy, calc, auditVars, notifVars, backVars>>

\* calculate_next_due_date called on its own: the dates, patterns and intervals
\* it is given
MaxInterval == 3

DueDates ==
    { <<2026, 1, 1>>, <<2026, 1, 31>>, <<2026, 2, 28>>, <<2024, 2, 29>>,
      <<2024, 1, 30>>, <<2025, 12, 31>>, <<2026, 3, 31>>, <<2027, 11, 15>> }

Intervals == (-1)..MaxInterval

InitDates ==
    /\ store = EmptyStore
    /\ tasks = <<>>
    /\ nextId = Cardinality(BaseTasks) + 1
    /\ spawnedBy = {}
    /\ recurLast = Last("init", NoEvent, "", {}, 0, 0, EmptyStore, FALSE)
    /\ calc \in [pc : {"called"}, current_due_date : DueDates, pattern : Patterns,
                 interval : Intervals, result : {NoDate}]
    /\ startup = ""
    /\ engine = TRUE
    /\ auditLog = <<>>
    /\ auditDelivered = <<>>
    /\ auditReply = <<>>
    /\ parsed = <<>>
    /\ active_connections = <<>>
    /\ wsState = <<>>
    /\ jobs = <<>>
    /\ received = <<>>
    /\ enabled = TRUE
    /\ db = <<>>
    /\ requests = <<>>
    /\ background = <<>>
    /\ pubCall = <<>>
    /\ probe = <<>>
    /\ chat_rate_limiter = <<>>
    /\ clock = 0
    /\ rateLog = <<>>

\* the call returns
next_due_date ==
    /\ calc.pc = "called"
    /\ calc' = [calc EXCEPT !.pc = "returned",
                            !.result = calculate_next_due_date(
                                calc.current_due_date, calc.pattern, calc.interval)]
    /\ UNCHANGED <<store, tasks, nextId, spawnedBy, recurLast, auditVars, notifVars,
                   backVars>>

DatesNext == next_due_date

SpecDates == InitDates /\ [][DatesNext]_vars

RecurNext ==
    \/ RecurDeliver
    \/ set_recurrence
    \/ remove_recurrence

SpecRecur ==
    /\ InitRecur
    /\ [][RecurNext]_vars


(***************************************************************************)
(* Audit consumer (services/audit/main.py).                                *)
(***************************************************************************)
\* the characters of the strings the parser inspects
Chars(str) ==
    IF str = "task.created" THEN <<"t", "a", "s", "k", ".", "c", "r", "e", "a", "t", "e", "d">> ELSE
    IF str = "task.updated" THEN <<"t", "a", "s", "k", ".", "u", "p", "d", "a", "t", "e", "d">> ELSE
    IF str = "task.deleted" THEN <<"t", "a", "s", "k", ".", "d", "e", "l", "e", "t", "e", "d">> ELSE
    IF str = "task.completed" THEN <<"t", "a", "s", "k", ".", "c", "o", "m", "p", "l", "e", "t", "e", "d">> ELSE
    IF str = "task.uncompleted" THEN <<"t", "a", "s", "k", ".", "u", "n", "c", "o", "m", "p", "l", "e", "t", "e", "d">> ELSE
    IF str = "reminder.scheduled" THEN <<"r", "e", "m", "i", "n", "d", "e", "r", ".", "s", "c", "h", "e", "d", "u", "l", "e", "d">> ELSE
    IF str = "reminder.triggered" THEN <<"r", "e", "m", "i", "n", "d", "e", "r", ".", "t", "r", "i", "g", "g", "e", "r", "e", "d">> ELSE
    IF str = "created" THEN <<"c", "r", "e", "a", "t", "e", "d">> ELSE
    IF str = "updated" THEN <<"u", "p", "d", "a", "t", "e", "d">> ELSE
    IF str = "deleted" THEN <<"d", "e", "l", "e", "t", "e", "d">> ELSE
    IF str = "completed" THEN <<"c", "o", "m", "p", "l", "e", "t", "e", "d">> ELSE
    IF str = "uncompleted" THEN <<"u", "n", "c", "o", "m", "p", "l", "e", "t", "e", "d">> ELSE
    IF str = "task" THEN <<"t", "a", "s", "k">> ELSE
    IF str = "reminder" THEN <<"r", "e", "m", "i", "n", "d", "e", "r">> ELSE
    IF str = "conversation" THEN <<"c", "o", "n", "v", "e", "r", "s", "a", "t", "i", "o", "n">> ELSE
    <<>>

\* Python's  sub in s  on strings
Contains(sub, s) ==
    \E i \in 1..(Len(s) - Len(sub) + 1) : SubSeq(s, i, i + Len(sub) - 1) = sub

In(word, event_type) == Contains(Chars(word), Chars(event_type))

ActionOf(event_type) ==
    IF In("created", event_type) THEN "created"
    ELSE IF In("updated", event_type) THEN "updated"
    ELSE IF In("deleted", event_type) THEN "deleted"
    ELSE IF In("completed", event_type) THEN "completed"
    ELSE IF In("uncompleted", event_type) THEN "uncompleted"
    ELSE "unknown"

EntityTypeOf(event_type) ==
    IF In("task", event_type) THEN "task"
    ELSE IF In("reminder", event_type) THEN "reminder"
    ELSE IF In("conversation", event_type) THEN "conversation"
    ELSE "unknown"

\* data.get("task_id") or data.get("entity_id"): None (<<>>) when the id is
\* missing or 0
EntityIdOf(event) == IF event.task_id = 0 THEN <<>> ELSE <<event.task_id>>

\* the keys of the event's data dict
DataKeys(event) ==
    (IF event.task_id # 0 THEN {"task_id"} ELSE {})
        \cup (IF event.user_id # "" THEN {"user_id"} ELSE {})
        \cup (IF event.type = "task.updated" THEN {"changes"} ELSE {})

\* a nullable JSON column: <<>> is NULL
Null == <<>>

\* json.dumps(d) if d else None, for the dict with these keys whose values are
\* taken from `from`; an empty dict is falsy
Dumps(from, keys) == IF keys = {} THEN Null ELSE <<[from |-> from, keys |-> keys]>>

\* old_data: the "old" side of the change-set of an update event
OldDataOf(event) ==
    IF ActionOf(event.type) = "updated" THEN Dumps("changes.old", event.changes)
    ELSE Null

\* new_data: the "new" side of the change-set, or the data of a created event
NewDataOf(event) ==
    IF ActionOf(event.type) = "updated" THEN Dumps("changes.new", event.changes)
    ELSE IF ActionOf(event.type) = "created" THEN Dumps("data", DataKeys(event))
    ELSE Null

\* parse_event_to_audit with new_data taken from the data of every event
ParseEventNewDataAlways(event, topic) ==
    [id |-> 0, event_id |-> event.id, event_type |-> event.type, topic |-> topic,
     user_id |-> event.user_id, entity_type |-> EntityTypeOf(event.type),
     entity_id |-> EntityIdOf(event), action |-> ActionOf(event.type),
     old_data |-> OldDataOf(event),
     new_data |-> IF ActionOf(event.type) = "updated"
                  THEN Dumps("changes.new", event.changes)
                  ELSE Dumps("data", DataKeys(event))]

\* parse_event_to_audit: the AuditLog row of an event (id is set on insert)
parse_event_to_audit(event, topic) ==
    [id |-> 0, event_id |-> event.id, event_type |-> event.type, topic |-> topic,
     user_id |-> event.user_id, entity_type |-> EntityTypeOf(event.type),
     entity_id |-> EntityIdOf(event), action |-> ActionOf(event.type),
     old_data |-> OldDataOf(event), new_data |-> NewDataOf(event)]

\* save_audit_log with an insert that skips an event id already in the log
SaveAuditLogDedup(log, eng, audit, insertOk) ==
    IF ~eng THEN log
    ELSE IF ~insertOk THEN log
    ELSE IF \E i \in 1..Len(log) : log[i].event_id = audit.event_id THEN log
    ELSE Append(log, [audit EXCEPT !.id = Len(log) + 1])

\* save_audit_log writing over the newest row instead of adding one
SaveAuditLogOverwrite(log, eng, audit, insertOk) ==
    IF ~eng THEN log
    ELSE IF ~insertOk THEN log
    ELSE IF log = <<>> THEN <<[audit EXCEPT !.id = 1]>>
    ELSE [log EXCEPT ![Len(log)] = [audit EXCEPT !.id = Len(log)]]

\* save_audit_log: the table after the call (unchanged when it returns False)
save_audit_log(log, eng, audit, insertOk) ==
    IF ~eng THEN log
    ELSE IF ~insertOk THEN log
    ELSE Append(log, [audit EXCEPT !.id = Len(log) + 1])

\* the body shared by the three delivery endpoints: the answer and the table
audit_handle(log, eng, event, topic, insertOk) ==
    IF event.malformed
    THEN [status |-> "RETRY", log |-> log, raised |-> {"parse"}]
    ELSE [status |-> "SUCCESS",
          log |-> save_audit_log(log, eng, parse_event_to_audit(event, topic), insertOk),
          raised |-> IF eng /\ ~insertOk THEN {"insert"} ELSE {}]

AuditTaskEvents ==
    { Ev(<<"created", 1>>, "task.created", 1, "u1", FALSE),
      Ev(<<"completed", 1>>, "task.completed", 1, "u1", TRUE),
      MalformedEv(<<"bad", 0>>) }

AuditReminderEvents ==
    { Ev(<<"reminder", 2>>, "reminder.triggered", 2, "u2", FALSE) }

AuditUpdateEvents ==
    { EvUpdated(<<"updated", 1>>, 1, "u1", {"title"}) }

\* the parameters of GET /audit: <<>> is None (not supplied), <<v>> the value v.
\* direct: query_audit_logs is called as a plain function, so every parameter
\* the caller leaves out holds its Query(...) default object, offset included
NoFilter ==
    [user_id |-> <<>>, entity_type |-> <<>>, entity_id |-> <<>>,
     event_type |-> <<>>, action |-> <<>>, direct |-> FALSE]

AuditQueries ==
    { [NoFilter EXCEPT !.entity_id = <<0>>],
      [NoFilter EXCEPT !.entity_id = <<2>>],
      [NoFilter EXCEPT !.user_id = <<"u1">>, !.action = <<"completed">>],
      [NoFilter EXCEPT !.entity_type = <<"task">>, !.event_type = <<"task.created">>] }

\* the where clauses: a filter is applied when its parameter is truthy
Matches(row, f) ==
    /\ (f.user_id # <<>> /\ f.user_id[1] # "") => row.user_id = f.user_id[1]
    /\ (f.entity_type # <<>> /\ f.entity_type[1] # "")
          => row.entity_type = f.entity_type[1]
    /\ (f.entity_id # <<>> /\ f.entity_id[1] # 0) => row.entity_id = f.entity_id
    /\ (f.event_type # <<>> /\ f.event_type[1] # "")
          => row.event_type = f.event_type[1]
    /\ (f.action # <<>> /\ f.action[1] # "") => row.action = f.action[1]

\* the response of a read endpoint: the status code, the rows returned (the ids
\* identify them; their order is not modelled) and the total of the statistics
Reply(op, f, code, rows, total) ==
    [op |-> op, filter |-> f, code |-> code, rows |-> rows, total |-> total]

NoReply == Reply("none", NoFilter, 0, {}, 0)

\* query_audit_logs.  With direct set, query.offset(<Query object>) raises
\* inside the try and the except clause answers 500, as it does for a session
\* that cannot execute the query.
query_audit_logs(op, eng, log, f) ==
    IF ~eng THEN Reply(op, f, 503, {}, 0)
    ELSE IF f.direct THEN Reply(op, f, 500, {}, 0)
    ELSE Reply(op, f, 200, {log[i] : i \in {k \in 1..Len(log) : Matches(log[k], f)}}, 0)

\* get_entity_history: calls query_audit_logs(entity_type=, entity_id=, limit=)
get_entity_history(eng, log, entity_type, entity_id) ==
    query_audit_logs("history", eng, log,
                     [NoFilter EXCEPT !.entity_type = <<entity_type>>,
                                      !.entity_id = <<entity_id>>,
                                      !.direct = TRUE])

\* get_audit_stats: total_events over the rows of the user (all rows when the
\* user_id parameter is falsy)
get_audit_stats(eng, log, user_id) ==
    LET f == [NoFilter EXCEPT !.user_id = user_id]
    IN IF ~eng THEN Reply("stats", f, 503, {}, 0)
       ELSE Reply("stats", f, 200, {},
                  Cardinality({k \in 1..Len(log) : Matches(log[k], f)}))

\* health_check: always answers, reporting whether the engine is set
health_check(eng) ==
    Reply(IF eng THEN "health connected" ELSE "health not configured",
          NoFilter, 200, {}, 0)

\* lifespan.  unconfigured: DATABASE_URL is empty (create_engine raising leaves
\* engine None as well); tables_failed: create_engine returned and create_tables
\* raised (the store could not be reached), the global engine stays assigned;
\* connected: both returned.
StartupOutcomes == {"unconfigured", "tables_failed", "connected"}

lifespan(outcome) == outcome \in {"tables_failed", "connected"}

InitAudit ==
    /\ store = EmptyStore
    /\ tasks = <<>>
    /\ nextId = Cardinality(BaseTasks) + 1
    /\ spawnedBy = {}
    /\ recurLast = Last("init", NoEvent, "", {}, 0, 0, EmptyStore, FALSE)
    /\ calc = <<>>
    /\ startup \in StartupOutcomes
    /\ engine = lifespan(startup)
    /\ auditLog = <<>>
    /\ auditDelivered = <<>>
    /\ auditReply = NoReply
    /\ parsed = <<>>
    /\ active_connections = <<>>
    /\ wsState = <<>>
    /\ jobs = <<>>
    /\ received = <<>>
    /\ enabled = TRUE
    /\ db = <<>>
    /\ requests = <<>>
    /\ background = <<>>
    /\ pubCall = <<>>
    /\ probe = <<>>
    /\ chat_rate_limiter = <<>>
    /\ clock = 0
    /\ rateLog = <<>>

\* one delivery to an endpoint of the audit service: the table and the record of
\* deliveries afterwards.  insertOk matters only when an insert is attempted.
AuditCanDeliver(event, insertOk) ==
    /\ Len(auditDelivered) < MaxAuditDeliveries
    /\ (event.malformed \/ ~engine) => insertOk

AuditDelivery(event, topic, r) ==
    Append(auditDelivered,
           [event |-> event, topic |-> topic, status |-> r.status, raised |-> r.raised])

\* POST /events/task-events
audit_handle_task_events ==
    \E event \in AuditTaskEvents, insertOk \in BOOLEAN :
        /\ AuditCanDeliver(event, insertOk)
        /\ LET r == audit_handle(auditLog, engine, event, "task-events", insertOk)
           IN /\ auditLog' = r.log
              /\ auditDelivered' = AuditDelivery(event, "task-events", r)
        /\ UNCHANGED <<startup, engine, auditReply, parsed, recurVars, notifVars, backVars>>

\* POST /events/reminders
audit_handle_reminders ==
    \E event \in AuditReminderEvents, insertOk \in BOOLEAN :
        /\ AuditCanDeliver(event, insertOk)
        /\ LET r == audit_handle(auditLog, engine, event, "reminders", insertOk)
           IN /\ auditLog' = r.log
              /\ auditDelivered' = AuditDelivery(event, "reminders", r)
        /\ UNCHANGED <<startup, engine, auditReply, parsed, recurVars, notifVars, backVars>>

\* POST /events/task-updates
audit_handle_task_updates ==
    \E event \in AuditUpdateEvents, insertOk \in BOOLEAN :
        /\ AuditCanDeliver(event, insertOk)
        /\ LET r == audit_handle(auditLog, engine, event, "task-updates", insertOk)
           IN /\ auditLog' = r.log
              /\ auditDelivered' = AuditDelivery(event, "task-updates", r)
        /\ UNCHANGED <<startup, engine, auditReply, parsed, recurVars, notifVars, backVars>>

\* GET /audit
get_query_audit_logs ==
    \E f \in AuditQueries :
        /\ auditReply' = query_audit_logs("query", engine, auditLog, f)
        /\ UNCHANGED <<startup, engine, auditLog, auditDelivered, parsed, recurVars,
                       notifVars, backVars>>

\* GET /audit/entity/{entity_type}/{entity_id}
get_get_entity_history ==
    \E entity_id \in {0, 1} :
        /\ auditReply' = get_entity_history(engine, auditLog, "task", entity_id)
        /\ UNCHANGED <<startup, engine, auditLog, auditDelivered, parsed, recurVars,
                       notifVars, backVars>>

\* GET /audit/stats
get_get_audit_stats ==
    \E user_id \in {<<>>, <<"u2">>} :
        /\ auditReply' = get_audit_stats(engine, auditLog, user_id)
        /\ UNCHANGED <<startup, engine, auditLog, auditDelivered, parsed, recurVars,
                       notifVars, backVars>>

\* GET /health
get_health_check ==
    /\ auditReply' = health_check(engine)
    /\ UNCHANGED <<startup, engine, auditLog, auditDelivered, parsed, recurVars,
                   notifVars, backVars>>

AuditNext ==
    \/ audit_handle_task_events
    \/ audit_handle_reminders
    \/ audit_handle_task_updates
    \/ get_query_audit_logs
    \/ get_get_entity_history
    \/ get_get_audit_stats
    \/ get_health_check

SpecAudit == InitAudit /\ [][AuditNext]_vars

\* the enumerated event types (backend/app/events/schemas.py, EventType)
EventType ==
    {"task.created", "task.updated", "task.deleted", "task.completed",
     "task.uncompleted", "reminder.scheduled", "reminder.triggered"}

\* well-formed envelopes of every enumerated type, with and without a task id,
\* a user id and changed fields
ParseEvents ==
    { Ev(<<"e", 1>>, type, task_id, user_id, type = "task.completed") :
        type \in EventType \ {"task.updated"}, task_id \in {0, 1},
        user_id \in {"", "u1"} }
    \cup { EvUpdated(<<"e", 1>>, task_id, user_id, changes) :
             task_id \in {0, 1}, user_id \in {"", "u1"},
             changes \in {{}, {"title"}, {"title", "completed"}} }

\* parse_event_to_audit on its own: a call with an event and a topic
InitParse ==
    /\ store = EmptyStore
    /\ tasks = <<>>
    /\ nextId = Cardinality(BaseTasks) + 1
    /\ spawnedBy = {}
    /\ recurLast = Last("init", NoEvent, "", {}, 0, 0, EmptyStore, FALSE)
    /\ calc = <<>>
    /\ startup = ""
    /\ engine = TRUE
    /\ auditLog = <<>>
    /\ auditDelivered = <<>>
    /\ auditReply = <<>>
    /\ parsed \in [pc : {"called"}, event : ParseEvents, topic : TopicNames,
                   audit : {parse_event_to_audit(NoEvent, "")}]
    /\ active_connections = <<>>
    /\ wsState = <<>>
    /\ jobs = <<>>
    /\ received = <<>>
    /\ enabled = TRUE
    /\ db = <<>>
    /\ requests = <<>>
    /\ background = <<>>
    /\ pubCall = <<>>
    /\ probe = <<>>
    /\ chat_rate_limiter = <<>>
    /\ clock = 0
    /\ rateLog = <<>>

\* the call returns the row
parse_event ==
    /\ parsed.pc = "called"
    /\ parsed' = [parsed EXCEPT !.pc = "returned",
                                !.audit = parse_event_to_audit(parsed.event,
                                                               parsed.topic)]
    /\ UNCHANGED <<startup, engine, auditLog, auditDelivered, auditReply, recurVars,
                   notifVars, backVars>>

ParseNext == parse_event

SpecParse == InitParse /\ [][ParseNext]_vars

(***************************************************************************)
(* Notification consumer (services/notification/main.py).  A delivery is a *)
(* job: the handler runs up to its first await of connection.send_json,    *)
(* and each later step resumes it after that send until the next one.      *)
(* Connects and disconnects of the websocket coroutines run in between.    *)
(***************************************************************************)
Conns == 1..NumConns
Jobs == 1..NumJobs

\* the user_id of the path /ws/{user_id} each connection was opened with
UserOf(c) == IF c % 3 = 0 THEN "u2" ELSE "u1"

\* a key of active_connections: absent, or present with its set
NoEntry == [present |-> FALSE, conns |-> {}]
Entry(S) == [present |-> TRUE, conns |-> S]

\* ConnectionManager.connect, after websocket.accept()
Register(reg, c, u) ==
    IF ~reg[u].present THEN [reg EXCEPT ![u] = Entry({c})]
    ELSE [reg EXCEPT ![u] = Entry(reg[u].conns \cup {c})]

\* disconnect discarding the connection and keeping the user's key
DisconnectKeepingEntry(reg, c, u) ==
    IF reg[u].present THEN [reg EXCEPT ![u] = Entry(reg[u].conns \ {c})]
    ELSE reg

\* ConnectionManager.disconnect
Disconnect(reg, c, u) ==
    IF reg[u].present
    THEN LET S == reg[u].conns \ {c}
         IN [reg EXCEPT ![u] = IF S = {} THEN NoEntry ELSE Entry(S)]
    ELSE reg

\* GET /status: connected_users is the number of keys of active_connections,
\* total_connections the sum of the sizes of their sets
get_status(reg) ==
    LET keys == {u \in Users : reg[u].present}
    IN [connected_users |-> Cardinality(keys),
        total_connections |->
            Cardinality({c \in Conns : \E u \in keys : c \in reg[u].conns})]

\* the type of the notification handle_task_events builds, "" for None
TaskNotification(event) ==
    IF event.type \in {"task.created", "task.completed", "task.uncompleted",
                       "task.deleted"}
    THEN event.type
    ELSE IF event.type = "task.updated" /\ event.changes # {} THEN "task.updated"
    ELSE ""

NotifTaskEvents ==
    { Ev(<<"created", 1>>, "task.created", 1, "u1", FALSE),
      EvUpdated(<<"updated", 1>>, 1, "u1", {}),
      Ev(<<"nouser", 1>>, "task.created", 1, "", FALSE),
      MalformedEv(<<"bad", 0>>) }

NotifReminderEvents ==
    { Ev(<<"reminder", 2>>, "reminder.triggered", 2, "u2", FALSE),
      Ev(<<"reminder", 1>>, "reminder.triggered", 1, "u1", FALSE) }

NotifUpdateEvents ==
    { EvUpdated(<<"updated", 1>>, 1, "u1", {"title"}) }

\* a delivery.  size, visited: the set iterator of the for loop (the size it
\* recorded, the connections it has yielded); detached: the set it iterates was
\* deleted from active_connections (and is empty); cur: the connection whose
\* send_json is awaited; sent / disconnected: sends that returned / raised;
\* start, after: the user's set when send_to_user began and after its clean-up;
\* interfered: another coroutine changed the user's entry while this one waited.
IdleJob ==
    [pc |-> "idle", topic |-> "", event |-> NoEvent, size |-> 0, visited |-> {},
     disconnected |-> {}, sent |-> {}, cur |-> 0, detached |-> FALSE,
     start |-> {}, after |-> {}, interfered |-> FALSE, status |-> "",
     raised |-> {}]

\* the handler returns (the iterator is gone)
Answer(jb, status, raised) ==
    [jb EXCEPT !.pc = "done", !.cur = 0, !.size = 0, !.visited = {},
               !.detached = FALSE, !.status = status, !.raised = raised]

\* the clean-up dropping all of the user's sockets once any send raised
CleanupAll(S, disconnected) == IF disconnected = {} THEN S ELSE {}

\* send_to_user, the clean-up loop: discard the sockets whose send raised
Cleanup(S, disconnected) == S \ disconnected

\* send_to_user from the point where the for statement asks its iterator for the
\* next connection: the possible <<job, registry>> pairs at the next await or
\* at the handler's return
IterNext(jb, reg) ==
    LET u == jb.event.user_id
        S == IF jb.detached THEN {} ELSE reg[u].conns
    IN IF Cardinality(S) # jb.size
       THEN \* RuntimeError: Set changed size during iteration; the handler's except
            { <<Answer(jb, "RETRY", {"RuntimeError"}), reg>> }
       ELSE IF S \ jb.visited # {}
       THEN { <<[jb EXCEPT !.cur = c, !.visited = @ \cup {c}], reg>> :
                 c \in S \ jb.visited }
       ELSE IF jb.disconnected = {}
       THEN { <<Answer([jb EXCEPT !.after = reg[u].conns], "SUCCESS", {}), reg>> }
       ELSE IF ~reg[u].present
       THEN { <<Answer(jb, "RETRY", {"KeyError"}), reg>> }
       ELSE LET S2 == Cleanup(reg[u].conns, jb.disconnected)
            IN { <<Answer([jb EXCEPT !.after = S2], "SUCCESS", {}),
                   [reg EXCEPT ![u] = Entry(S2)]>> }

\* send_to_user creating the entry of a user it does not find
SendToUserRegistering(jb, reg) ==
    LET u == jb.event.user_id
    IN IF reg[u].present
       THEN IterNext([jb EXCEPT !.size = Cardinality(reg[u].conns),
                                !.start = reg[u].conns], reg)
       ELSE { <<Answer(jb, "SUCCESS", {}), [reg EXCEPT ![u] = Entry({})]>> }

\* send_to_user looking up a key other than the event's user when one is present
SendToUserAnyKey(jb, reg) ==
    LET others == {v \in Users : v # jb.event.user_id /\ reg[v].present}
        u == IF others = {} THEN jb.event.user_id ELSE CHOOSE v \in others : TRUE
        jb2 == [jb EXCEPT !.event.user_id = u]
    IN IF reg[u].present
       THEN IterNext([jb2 EXCEPT !.size = Cardinality(reg[u].conns),
                                 !.start = reg[u].conns], reg)
       ELSE { <<Answer(jb2, "SUCCESS", {}), reg>> }

\* ConnectionManager.send_to_user up to its first await
send_to_user(jb, reg) ==
    LET u == jb.event.user_id
    IN IF reg[u].present
       THEN IterNext([jb EXCEPT !.size = Cardinality(reg[u].conns),
                                !.start = reg[u].conns], reg)
       ELSE { <<Answer(jb, "SUCCESS", {}), reg>> }

\* a delivery endpoint up to its first await; notify: a message is to be pushed
BeginDelivery(topic, event, notify, reg) ==
    LET jb == [IdleJob EXCEPT !.topic = topic, !.event = event]
    IN IF event.malformed THEN { <<Answer(jb, "RETRY", {"parse"}), reg>> }
       ELSE IF event.user_id = "" THEN { <<Answer(jb, "SKIP", {}), reg>> }
       ELSE IF ~notify THEN { <<Answer(jb, "SUCCESS", {}), reg>> }
       ELSE send_to_user([jb EXCEPT !.pc = "sending"], reg)

\* what a change of the registry by coroutine j means for the other deliveries
\* waiting in the loop over a changed entry
Others(js, j, reg, reg2) ==
    [k \in Jobs |->
        IF k # j /\ js[k].pc = "sending"
           /\ reg2[js[k].event.user_id] # reg[js[k].event.user_id]
        THEN [js[k] EXCEPT !.interfered = TRUE,
                           !.detached = @ \/ ~reg2[js[k].event.user_id].present]
        ELSE js[k]]

InitNotif ==
    /\ store = EmptyStore
    /\ tasks = <<>>
    /\ nextId = Cardinality(BaseTasks) + 1
    /\ spawnedBy = {}
    /\ recurLast = Last("init", NoEvent, "", {}, 0, 0, EmptyStore, FALSE)
    /\ calc = <<>>
    /\ startup = ""
    /\ engine = TRUE
    /\ auditLog = <<>>
    /\ auditDelivered = <<>>
    /\ auditReply = <<>>
    /\ parsed = <<>>
    /\ active_connections = [u \in Users |-> NoEntry]
    /\ wsState = [c \in Conns |-> "new"]
    /\ jobs = [j \in Jobs |-> IdleJob]
    /\ received = [c \in Conns |-> 0]
    /\ enabled = TRUE
    /\ db = <<>>
    /\ requests = <<>>
    /\ background = <<>>
    /\ pubCall = <<>>
    /\ probe = <<>>
    /\ chat_rate_limiter = <<>>
    /\ clock = 0
    /\ rateLog = <<>>

\* deliveries are numbered in the order they arrive
CanStart(j) ==
    /\ jobs[j].pc = "idle"
    /\ \A k \in Jobs : k < j => jobs[k].pc # "idle"

\* POST /events/task-events
notif_handle_task_events ==
    \E j \in Jobs, event \in NotifTaskEvents :
        /\ CanStart(j)
        /\ \E r \in BeginDelivery("task-events", event, TaskNotification(event) # "",
                                  active_connections) :
              /\ jobs' = [Others(jobs, j, active_connections, r[2]) EXCEPT ![j] = r[1]]
              /\ active_connections' = r[2]
        /\ UNCHANGED <<wsState, received, recurVars, auditVars, backVars>>

\* POST /events/reminders
notif_handle_reminders ==
    \E j \in Jobs, event \in NotifReminderEvents :
        /\ CanStart(j)
        /\ \E r \in BeginDelivery("reminders", event, TRUE, active_connections) :
              /\ jobs' = [Others(jobs, j, active_connections, r[2]) EXCEPT ![j] = r[1]]
              /\ active_connections' = r[2]
        /\ UNCHANGED <<wsState, received, recurVars, auditVars, backVars>>

\* POST /events/task-updates
notif_handle_task_updates ==
    \E j \in Jobs, event \in NotifUpdateEvents :
        /\ CanStart(j)
        /\ \E r \in BeginDelivery("task-updates", event, TRUE, active_connections) :
              /\ jobs' = [Others(jobs, j, active_connections, r[2]) EXCEPT ![j] = r[1]]
              /\ active_connections' = r[2]
        /\ UNCHANGED <<wsState, received, recurVars, auditVars, backVars>>

\* the awaited connection.send_json returns (ok) or raises, and send_to_user
\* runs on to its next await or to the handler's return; a send on a closed
\* socket raises
send_to_user_resume ==
    \E j \in Jobs, ok \in BOOLEAN :
        /\ jobs[j].pc = "sending"
        /\ ok => wsState[jobs[j].cur] # "closed"
        /\ LET c == jobs[j].cur
               jb == IF ok THEN [jobs[j] EXCEPT !.sent = @ \cup {c}]
                     ELSE [jobs[j] EXCEPT !.disconnected = @ \cup {c}]
           IN /\ received' = IF ok THEN [received EXCEPT ![c] = @ + 1] ELSE received
              /\ \E r \in IterNext(jb, active_connections) :
                    /\ jobs' = [Others(jobs, j, active_connections, r[2])
                                  EXCEPT ![j] = r[1]]
                    /\ active_connections' = r[2]
        /\ UNCHANGED <<wsState, recurVars, auditVars, backVars>>

\* websocket_endpoint: manager.connect (accept, then register); a user's
\* connections are numbered in the order they are opened
ws_connect ==
    \E c \in Conns :
        /\ wsState[c] = "new"
        /\ \A k \in Conns : (k < c /\ UserOf(k) = UserOf(c)) => wsState[k] # "new"
        /\ wsState' = [wsState EXCEPT ![c] = "welcome"]
        /\ LET reg2 == Register(active_connections, c, UserOf(c))
           IN /\ active_connections' = reg2
              /\ jobs' = Others(jobs, 0, active_connections, reg2)
        /\ UNCHANGED <<received, recurVars, auditVars, backVars>>

\* websocket_endpoint: the welcome send returns, or raises and the except
\* clause disconnects
ws_welcome ==
    \E c \in Conns, ok \in BOOLEAN :
        /\ wsState[c] = "welcome"
        /\ wsState' = [wsState EXCEPT ![c] = IF ok THEN "open" ELSE "closed"]
        /\ LET reg2 == IF ok THEN active_connections
                       ELSE Disconnect(active_connections, c, UserOf(c))
           IN /\ active_connections' = reg2
              /\ jobs' = Others(jobs, 0, active_connections, reg2)
        /\ UNCHANGED <<received, recurVars, auditVars, backVars>>

\* websocket_endpoint: the receive loop ends (WebSocketDisconnect or another
\* exception) and the except clause disconnects
ws_disconnect ==
    \E c \in Conns :
        /\ wsState[c] = "open"
        /\ wsState' = [wsState EXCEPT ![c] = "closed"]
        /\ LET reg2 == Disconnect(active_connections, c, UserOf(c))
           IN /\ active_connections' = reg2
              /\ jobs' = Others(jobs, 0, active_connections, reg2)
        /\ UNCHANGED <<received, recurVars, auditVars, backVars>>

NotifNext ==
    \/ notif_handle_task_events
    \/ notif_handle_reminders
    \/ notif_handle_task_updates
    \/ send_to_user_resume
    \/ ws_connect
    \/ ws_welcome
    \/ ws_disconnect

SpecNotif == InitNotif /\ [][NotifNext]_vars

\* Two users connected at once: the connections of Conns and one more, so that
\* both users of UserOf have a socket open, every welcome sent
IsoConns == 1..(NumConns + 1)

InitIsolation ==
    /\ store = EmptyStore
    /\ tasks = <<>>
    /\ nextId = Cardinality(BaseTasks) + 1
    /\ spawnedBy = {}
    /\ recurLast = Last("init", NoEvent, "", {}, 0, 0, EmptyStore, FALSE)
    /\ calc = <<>>
    /\ startup = ""
    /\ engine = TRUE
    /\ auditLog = <<>>
    /\ auditDelivered = <<>>
    /\ auditReply = <<>>
    /\ parsed = <<>>
    /\ active_connections =
           [u \in Users |-> LET S == {c \in IsoConns : UserOf(c) = u}
                            IN IF S = {} THEN NoEntry ELSE Entry(S)]
    /\ wsState = [c \in IsoConns |-> "open"]
    /\ jobs = [j \in Jobs |-> IdleJob]
    /\ received = [c \in IsoConns |-> 0]
    /\ enabled = TRUE
    /\ db = <<>>
    /\ requests = <<>>
    /\ background = <<>>
    /\ pubCall = <<>>
    /\ probe = <<>>
    /\ chat_rate_limiter = <<>>
    /\ clock = 0
    /\ rateLog = <<>>

IsolationNext ==
    \/ notif_handle_task_events
    \/ notif_handle_reminders
    \/ notif_handle_task_updates
    \/ send_to_user_resume
    \/ ws_disconnect

SpecIsolation == InitIsolation /\ [][IsolationNext]_vars

(***************************************************************************)
(* Backend: the task routes (backend/app/routes/tasks.py) and the event    *)
(* publisher (backend/app/events/publisher.py).  A route handler runs      *)
(* without awaiting, so it is one step; the background task it adds runs   *)
(* after the response, one awaited HTTP POST per step.                     *)
(***************************************************************************)
MaxRequests == 2        \* task requests handled
MaxRetryCount == 3      \* largest retry_count passed to publish
DefaultRetryCount == 3  \* retry_count: int = 3

Titles == {"a", "b"}

\* a row of the task table; a deleted row keeps its id
Row(user_id, title, completed, status) ==
    [exists |-> TRUE, user_id |-> user_id, title |-> title,
     completed |-> completed, status |-> status]

DeletedRow ==
    [exists |-> FALSE, user_id |-> "", title |-> "", completed |-> FALSE,
     status |-> ""]

\* session.get(Task, task_id) finds a row
Found(d, task_id) == task_id \in 1..Len(d) /\ d[task_id].exists

\* what a route handler did: the response (code, body), the table afterwards,
\* whether session.commit() returned, and the events of the background task
\* it added
Handled(code, d, task_id, row, committed, events) ==
    [code |-> code, db |-> d, task_id |-> task_id, body |-> row,
     committed |-> committed, events |-> events]

\* raise HTTPException, or session.commit() raising: nothing written, no
\* background task
Refused(code, d, task_id) == Handled(code, d, task_id, DeletedRow, FALSE, <<>>)

\* create_task with the background task added before the commit
CreateTaskPublishFirst(d, r, user_id, title, commitOk) ==
    LET task == Row(user_id, title, FALSE, "pending")
        id == Len(d) + 1
        events == <<Ev(<<"created", r>>, "task.created", id, user_id, FALSE)>>
    IN IF commitOk THEN Handled(201, Append(d, task), id, task, TRUE, events)
       ELSE Handled(500, d, id, DeletedRow, FALSE, events)

\* POST /api/tasks; r numbers the request (the event's uuid)
create_task(d, r, user_id, title, commitOk) ==
    LET task == Row(user_id, title, FALSE, "pending")
        id == Len(d) + 1
    IN IF commitOk
       THEN Handled(201, Append(d, task), id, task, TRUE,
                    <<Ev(<<"created", r>>, "task.created", id, user_id, FALSE)>>)
       ELSE Refused(500, d, id)

\* bodies of PUT /api/tasks/{id}: an optional field is <<>> (None) or <<value>>
TaskUpdates ==
    [title : {<<>>} \cup {<<t>> : t \in Titles},
     completed : {<<>>, <<TRUE>>, <<FALSE>>},
     status : {<<>>, <<"completed">>, <<"pending">>}]

\* PUT /api/tasks/{task_id}
update_task(d, r, user_id, task_id, task_data, commitOk) ==
    IF ~Found(d, task_id) THEN Refused(404, d, task_id)
    ELSE IF d[task_id].user_id # user_id THEN Refused(403, d, task_id)
    ELSE
      LET t0 == d[task_id]
          chTitle == task_data.title # <<>> /\ task_data.title[1] # t0.title
          t1 == IF chTitle THEN [t0 EXCEPT !.title = task_data.title[1]] ELSE t0
          chCompleted == task_data.completed # <<>>
                         /\ task_data.completed[1] # t1.completed
          t2 == IF chCompleted
                THEN [t1 EXCEPT !.completed = task_data.completed[1],
                                !.status = IF task_data.completed[1]
                                           THEN "completed" ELSE "pending"]
                ELSE t1
          chStatus == task_data.status # <<>> /\ task_data.status[1] # t2.status
          t3 == IF chStatus
                THEN [t2 EXCEPT !.status = task_data.status[1],
                                !.completed = (task_data.status[1] = "completed")]
                ELSE t2
          changes == (IF chTitle THEN {"title"} ELSE {})
                     \cup (IF chCompleted THEN {"completed"} ELSE {})
                     \cup (IF chStatus THEN {"status"} ELSE {})
          completed_event ==
              IF chCompleted
              THEN <<Ev(<<"completed", r>>,
                        IF t3.completed THEN "task.completed" ELSE "task.uncompleted",
                        task_id, user_id, t3.completed)>>
              ELSE <<>>
      IN IF commitOk
         THEN Handled(200, [d EXCEPT ![task_id] = t3], task_id, t3, TRUE,
                      completed_event
                        \o <<EvUpdated(<<"updated", r>>, task_id, user_id, changes)>>)
         ELSE Refused(500, d, task_id)

\* PATCH /api/tasks/{task_id}/complete
toggle_task_completion(d, r, user_id, task_id, commitOk) ==
    IF ~Found(d, task_id) THEN Refused(404, d, task_id)
    ELSE IF d[task_id].user_id # user_id THEN Refused(403, d, task_id)
    ELSE
      LET done == ~d[task_id].completed
          task == [d[task_id] EXCEPT !.completed = done,
                                     !.status = IF done THEN "completed" ELSE "pending"]
      IN IF commitOk
         THEN Handled(200, [d EXCEPT ![task_id] = task], task_id, task, TRUE,
                      <<Ev(<<"completed", r>>,
                           IF done THEN "task.completed" ELSE "task.uncompleted",
                           task_id, user_id, done)>>)
         ELSE Refused(500, d, task_id)

\* DELETE /api/tasks/{task_id}
delete_task(d, r, user_id, task_id, commitOk) ==
    IF ~Found(d, task_id) THEN Refused(404, d, task_id)
    ELSE IF d[task_id].user_id # user_id THEN Refused(403, d, task_id)
    ELSE IF commitOk
    THEN Handled(204, [d EXCEPT ![task_id] = DeletedRow], task_id, DeletedRow, TRUE,
                 <<Ev(<<"deleted", r>>, "task.deleted", task_id, user_id, FALSE)>>)
    ELSE Refused(500, d, task_id)

\* the entry of the request log for a handled request
Request(op, user_id, h) ==
    [op |-> op, user_id |-> user_id, task_id |-> h.task_id, code |-> h.code,
     body |-> h.body, committed |-> h.committed]

\* background_tasks.add_task: nothing is added when the handler raised first
AddTask(bg, r, h) ==
    IF h.events = <<>> THEN bg ELSE Append(bg, [req |-> r, events |-> h.events])

\* the envelope object constructed for a model event: the CloudEvents fields
\* with their defaults; id and time are produced once, by the default factories
\* at construction (time: the clock reading, the number in the id)
TaskEvent(e) ==
    [specversion |-> "1.0", id |-> e.id, source |-> "todo-backend", type |-> e.type,
     datacontenttype |-> "application/json", time |-> e.id[2], version |-> "1.0",
     data |-> [task_id |-> e.task_id, user_id |-> e.user_id,
               completed |-> e.completed, changes |-> e.changes]]

\* to_dict leaving the id out of the dump
ToDictWithoutId(ev) ==
    << <<"specversion", ev.specversion>>, <<"source", ev.source>>,
       <<"type", ev.type>>, <<"datacontenttype", ev.datacontenttype>>,
       <<"time", ev.time>>, <<"version", ev.version>>, <<"data", ev.data>> >>

\* TaskEvent.to_dict (model_dump): the dict of the fields, as key/value pairs in
\* declaration order
to_dict(ev) ==
    << <<"specversion", ev.specversion>>, <<"id", ev.id>>, <<"source", ev.source>>,
       <<"type", ev.type>>, <<"datacontenttype", ev.datacontenttype>>,
       <<"time", ev.time>>, <<"version", ev.version>>, <<"data", ev.data>> >>

\* key in d, and d[key]
Has(d, key) == \E i \in 1..Len(d) : d[i][1] = key
Get(d, key) == d[CHOOSE i \in 1..Len(d) : d[i][1] = key][2]

\* what the default factories give an envelope constructed without id and time
FreshId == <<"uuid4", 0>>
Now == 0

\* TaskEvent(**d): every field is taken from the dict, a missing one from its
\* default; type and data have no default
FromDict(d) ==
    IF ~Has(d, "type") \/ ~Has(d, "data")
    THEN [rejected |-> TRUE, event |-> TaskEvent(NoEvent)]
    ELSE [rejected |-> FALSE,
          event |->
            [specversion |-> IF Has(d, "specversion") THEN Get(d, "specversion")
                             ELSE "1.0",
             id |-> IF Has(d, "id") THEN Get(d, "id") ELSE FreshId,
             source |-> IF Has(d, "source") THEN Get(d, "source") ELSE "todo-backend",
             type |-> Get(d, "type"),
             datacontenttype |-> IF Has(d, "datacontenttype")
                                 THEN Get(d, "datacontenttype")
                                 ELSE "application/json",
             time |-> IF Has(d, "time") THEN Get(d, "time") ELSE Now,
             version |-> IF Has(d, "version") THEN Get(d, "version") ELSE "1.0",
             data |-> Get(d, "data")]]

\* the strings a caller passes as the type of an envelope; "task.archived" is
\* not a value of EventType
TypeStrings == EventType \cup {"task.archived"}

\* the validation of the field  type: str : every string is accepted
ValidatesType(type) == type \in TypeStrings

\* what the gateway does to one awaited client.post: a status code, or the
\* exception the call raises
GatewayOutcomes == {"200", "204", "500", "ConnectError", "TimeoutException",
                    "Exception"}

\* a call of EventPublisher.publish.  caller: "direct" or "background" (req: the
\* request whose background task calls, rest: the events that task publishes
\* next); attempt: the loop variable; posts: HTTP POSTs issued; failed: attempts
\* that ended without 200/204; seen: what the attempts so far got; result: the
\* value returned; raised: an exception left publish; payload: the local
\* variable (<<>> before it is assigned); sent: the bodies of the POSTs issued.
\* pc "aborted": the background task raised outside publish.
IdleCall ==
    [pc |-> "idle", caller |-> "", req |-> 0, rest |-> <<>>, enabled |-> FALSE,
     topic |-> "", event |-> NoEvent, retry_count |-> 0, attempt |-> 0,
     posts |-> 0, failed |-> 0, seen |-> {}, result |-> "", raised |-> FALSE,
     payload |-> <<>>, sent |-> {}]

Return(c, result) == [c EXCEPT !.pc = "returned", !.result = result]

\* the for loop dumping the event again on every attempt after the first, the
\* envelope rebuilt with a new id
NextAttemptFreshEnvelope(c, attempt) ==
    IF attempt < c.retry_count
    THEN [c EXCEPT !.pc = "posting", !.attempt = attempt, !.posts = @ + 1,
                   !.sent = @ \cup {IF attempt = 0 THEN c.payload
                                    ELSE to_dict([TaskEvent(c.event) EXCEPT
                                                    !.id = <<"uuid4", attempt>>])}]
    ELSE Return(c, "False")

\* the top of the for loop: the next attempt's POST with json=payload, or the
\* final return False
NextAttempt(c, attempt) ==
    IF attempt < c.retry_count
    THEN [c EXCEPT !.pc = "posting", !.attempt = attempt, !.posts = @ + 1,
                   !.sent = @ \cup {c.payload}]
    ELSE Return(c, "False")

\* publish posting whether or not the publisher is enabled
PublishIgnoringEnabled(c, on, topic, event, retry_count) ==
    NextAttempt([c EXCEPT !.enabled = on, !.topic = topic, !.event = event,
                          !.retry_count = retry_count,
                          !.payload = to_dict(TaskEvent(event))], 0)

\* EventPublisher.publish up to its first await
publish(c, on, topic, event, retry_count) ==
    LET call == [c EXCEPT !.enabled = on, !.topic = topic, !.event = event,
                          !.retry_count = retry_count]
    IN IF ~on THEN Return(call, "True")
       ELSE NextAttempt([call EXCEPT !.payload = to_dict(TaskEvent(event))], 0)

\* the loop body without the except Exception clause
PublishAttemptNoCatchAll(c, outcome) ==
    LET got == [c EXCEPT !.seen = @ \cup {outcome}]
        miss == [got EXCEPT !.failed = @ + 1]
    IN IF outcome \in {"200", "204"} THEN Return(got, "True")
       ELSE IF outcome = "ConnectError" /\ c.attempt = c.retry_count - 1
       THEN Return(miss, "False")
       ELSE IF outcome = "Exception"
       THEN [miss EXCEPT !.pc = "returned", !.raised = TRUE]
       ELSE NextAttempt(miss, c.attempt + 1)

\* the loop body with a timeout not moving on to the next attempt
PublishAttemptTimeoutFree(c, outcome) ==
    LET got == [c EXCEPT !.seen = @ \cup {outcome}]
        miss == [got EXCEPT !.failed = @ + 1]
    IN IF outcome \in {"200", "204"} THEN Return(got, "True")
       ELSE IF outcome = "ConnectError" /\ c.attempt = c.retry_count - 1
       THEN Return(miss, "False")
       ELSE IF outcome = "TimeoutException"
       THEN NextAttempt(miss, c.attempt)
       ELSE NextAttempt(miss, c.attempt + 1)

\* the loop body taking only 200 for success
PublishAttemptOnly200(c, outcome) ==
    LET got == [c EXCEPT !.seen = @ \cup {outcome}]
        miss == [got EXCEPT !.failed = @ + 1]
    IN IF outcome = "200" THEN Return(got, "True")
       ELSE IF outcome = "ConnectError" /\ c.attempt = c.retry_count - 1
       THEN Return(miss, "False")
       ELSE NextAttempt(miss, c.attempt + 1)

\* EventPublisher.publish from the point where the awaited client.post ends,
\* up to the next await or the return
publish_attempt(c, outcome) ==
    LET got == [c EXCEPT !.seen = @ \cup {outcome}]
        miss == [got EXCEPT !.failed = @ + 1]
    IN IF outcome \in {"200", "204"} THEN Return(got, "True")
       ELSE IF outcome = "ConnectError" /\ c.attempt = c.retry_count - 1
       THEN Return(miss, "False")
       ELSE NextAttempt(miss, c.attempt + 1)

\* what the gateway does to the awaited client.get of the health probe
ProbeOutcomes == {"200", "204", "503", "ConnectError", "TimeoutException"}

\* a call of check_health.  pc: "init" (lifespan has not run), "probing" (the
\* GET is awaited), "done"; caller: "lifespan" or "health" (GET /health);
\* outcome, result, raised: of the last call; is_healthy: the value lifespan
\* got ("" before); dapr: the dapr field of the last /health response
NoProbe ==
    [pc |-> "init", caller |-> "", outcome |-> "", result |-> FALSE,
     raised |-> FALSE, is_healthy |-> "", dapr |-> ""]

\* check_health answering True for every 2xx status
CheckHealthAny2xx(outcome) ==
    [result |-> outcome \in {"200", "204"}, raised |-> FALSE]

\* EventPublisher.check_health from the point where the awaited GET ends
check_health(outcome) ==
    [result |-> outcome = "200", raised |-> FALSE]

\* lifespan has run and its probe was answered 200
StartedUp ==
    [NoProbe EXCEPT !.pc = "done", !.caller = "lifespan", !.outcome = "200",
                    !.result = TRUE, !.is_healthy = "True"]

\* the application serves requests once lifespan has yielded
Serving == probe.pc # "init" /\ ~(probe.pc = "probing" /\ probe.caller = "lifespan")

\* events a caller other than the task routes constructs and publishes
DirectEvents ==
    { Ev(<<"reminder", 1>>, "reminder.triggered", 1, "u1", FALSE) }
    \cup { Ev(<<"direct", 1>>, type, 1, "u1", FALSE) :
             type \in {t \in {"task.archived"} : ValidatesType(t)} }

\* get_event_publisher: enabled is DAPR_ENABLED read at the first use
InitBackend ==
    /\ store = EmptyStore
    /\ tasks = <<>>
    /\ nextId = Cardinality(BaseTasks) + 1
    /\ spawnedBy = {}
    /\ recurLast = Last("init", NoEvent, "", {}, 0, 0, EmptyStore, FALSE)
    /\ calc = <<>>
    /\ startup = ""
    /\ engine = TRUE
    /\ auditLog = <<>>
    /\ auditDelivered = <<>>
    /\ auditReply = <<>>
    /\ parsed = <<>>
    /\ active_connections = <<>>
    /\ wsState = <<>>
    /\ jobs = <<>>
    /\ received = <<>>
    /\ enabled \in BOOLEAN
    /\ db = <<>>
    /\ requests = <<>>
    /\ background = <<>>
    /\ pubCall = IdleCall
    /\ probe = StartedUp
    /\ chat_rate_limiter = <<>>
    /\ clock = 0
    /\ rateLog = <<>>

\* publish shares no state with the routes: requests are explored apart from
\* the direct calls of publish
CanHandle ==
    /\ Len(requests) < MaxRequests
    /\ pubCall.caller # "direct"

\* the task ids of requests: every row of the table and one id without a row
RequestIds == 1..(Len(db) + 1)

post_create_task ==
    \E user_id \in {"u1"}, title \in {"a"}, commitOk \in BOOLEAN :
        /\ CanHandle
        /\ LET r == Len(requests) + 1
               h == create_task(db, r, user_id, title, commitOk)
           IN /\ db' = h.db
              /\ requests' = Append(requests, Request("create", user_id, h))
              /\ background' = AddTask(background, r, h)
        /\ UNCHANGED <<rateVars, probe, enabled, pubCall, recurVars, auditVars, notifVars>>

put_update_task ==
    \E user_id \in Users, task_id \in RequestIds, task_data \in TaskUpdates,
       commitOk \in BOOLEAN :
        /\ CanHandle
        /\ LET r == Len(requests) + 1
               h == update_task(db, r, user_id, task_id, task_data, commitOk)
           IN /\ db' = h.db
              /\ requests' = Append(requests, Request("update", user_id, h))
              /\ background' = AddTask(background, r, h)
        /\ UNCHANGED <<rateVars, probe, enabled, pubCall, recurVars, auditVars, notifVars>>

patch_toggle_task_completion ==
    \E user_id \in Users, task_id \in RequestIds, commitOk \in BOOLEAN :
        /\ CanHandle
        /\ LET r == Len(requests) + 1
               h == toggle_task_completion(db, r, user_id, task_id, commitOk)
           IN /\ db' = h.db
              /\ requests' = Append(requests, Request("toggle", user_id, h))
              /\ background' = AddTask(background, r, h)
        /\ UNCHANGED <<rateVars, probe, enabled, pubCall, recurVars, auditVars, notifVars>>

delete_delete_task ==
    \E user_id \in Users, task_id \in RequestIds, commitOk \in BOOLEAN :
        /\ CanHandle
        /\ LET r == Len(requests) + 1
               h == delete_task(db, r, user_id, task_id, commitOk)
           IN /\ db' = h.db
              /\ requests' = Append(requests, Request("delete", user_id, h))
              /\ background' = AddTask(background, r, h)
        /\ UNCHANGED <<rateVars, probe, enabled, pubCall, recurVars, auditVars, notifVars>>

\* the background task that last called publish has another event to publish
Continuing ==
    /\ pubCall.pc = "returned"
    /\ pubCall.caller = "background"
    /\ pubCall.rest # <<>>
    /\ ~pubCall.raised

\* a background task (publish_created_event, publish_updated_event,
\* publish_completion_event, publish_deleted_event) starts after its response:
\* it publishes its first event, or raises before publish is called
\* (get_event_publisher, the event's construction) and its except clause logs
background_start ==
    \E raises \in BOOLEAN :
        /\ pubCall.pc # "posting"
        /\ ~Continuing
        /\ background # <<>>
        /\ LET task == Head(background)
               call == [IdleCall EXCEPT !.caller = "background", !.req = task.req]
           IN pubCall' =
                IF raises THEN [call EXCEPT !.pc = "aborted"]
                ELSE publish([call EXCEPT !.rest = Tail(task.events)], enabled,
                             "task-events", Head(task.events), DefaultRetryCount)
        /\ background' = Tail(background)
        /\ UNCHANGED <<rateVars, probe, enabled, db, requests, recurVars, auditVars, notifVars>>

\* publish_updated_event after its first publish returned: the task.updated
\* event is published whatever the first call returned
background_continue ==
    /\ Continuing
    /\ pubCall' = publish([IdleCall EXCEPT !.caller = "background",
                                           !.req = pubCall.req,
                                           !.rest = Tail(pubCall.rest)],
                          enabled, "task-events", Head(pubCall.rest),
                          DefaultRetryCount)
    /\ UNCHANGED <<rateVars, probe, enabled, db, requests, background, recurVars, auditVars, notifVars>>

\* a caller invokes publish(topic, event, retry_count) itself
publish_call ==
    \E topic \in TopicNames, event \in DirectEvents, n \in 0..MaxRetryCount :
        /\ Serving
        /\ pubCall.pc # "posting"
        /\ requests = <<>>
        /\ pubCall' = publish([IdleCall EXCEPT !.caller = "direct"], enabled, topic,
                              event, n)
        /\ UNCHANGED <<rateVars, probe, enabled, db, requests, background, recurVars, auditVars, notifVars>>

\* the awaited client.post of the current attempt ends (httpx enforces
\* self.timeout), and publish runs on to its next await or to its return
post_response ==
    \E outcome \in GatewayOutcomes :
        /\ pubCall.pc = "posting"
        /\ pubCall' = publish_attempt(pubCall, outcome)
        /\ UNCHANGED <<rateVars, probe, enabled, db, requests, background, recurVars, auditVars, notifVars>>

BackendNext ==
    \/ post_create_task
    \/ put_update_task
    \/ patch_toggle_task_completion
    \/ delete_delete_task
    \/ background_start
    \/ background_continue
    \/ publish_call
    \/ post_response

SpecBackend == InitBackend /\ [][BackendNext]_vars

\* the publisher from process start: lifespan, GET /health and direct publishes
InitProbe ==
    /\ store = EmptyStore
    /\ tasks = <<>>
    /\ nextId = Cardinality(BaseTasks) + 1
    /\ spawnedBy = {}
    /\ recurLast = Last("init", NoEvent, "", {}, 0, 0, EmptyStore, FALSE)
    /\ calc = <<>>
    /\ startup = ""
    /\ engine = TRUE
    /\ auditLog = <<>>
    /\ auditDelivered = <<>>
    /\ auditReply = <<>>
    /\ parsed = <<>>
    /\ active_connections = <<>>
    /\ wsState = <<>>
    /\ jobs = <<>>
    /\ received = <<>>
    /\ enabled \in BOOLEAN
    /\ db = <<>>
    /\ requests = <<>>
    /\ background = <<>>
    /\ pubCall = IdleCall
    /\ probe = NoProbe
    /\ chat_rate_limiter = <<>>
    /\ clock = 0
    /\ rateLog = <<>>

\* lifespan: get_event_publisher, then await publisher.check_health()
backend_lifespan ==
    /\ probe.pc = "init"
    /\ probe' = [probe EXCEPT !.pc = "probing", !.caller = "lifespan"]
    /\ UNCHANGED <<rateVars, enabled, db, requests, background, pubCall, recurVars, auditVars,
                   notifVars>>

\* GET /health: probes when the publisher is enabled, else reports "disabled"
get_backend_health ==
    /\ Serving
    /\ probe.pc = "done"
    /\ probe' = IF enabled
                THEN [probe EXCEPT !.pc = "probing", !.caller = "health"]
                ELSE [probe EXCEPT !.caller = "health", !.dapr = "disabled"]
    /\ UNCHANGED <<rateVars, enabled, db, requests, background, pubCall, recurVars, auditVars,
                   notifVars>>

\* the awaited GET of check_health ends and the caller goes on: lifespan logs
\* and yields, /health answers
check_health_returns ==
    \E outcome \in ProbeOutcomes :
        /\ probe.pc = "probing"
        /\ LET r == check_health(outcome)
           IN probe' =
                IF probe.caller = "lifespan"
                THEN [probe EXCEPT !.pc = "done", !.outcome = outcome,
                                   !.result = r.result, !.raised = r.raised,
                                   !.is_healthy = IF r.result THEN "True" ELSE "False"]
                ELSE [probe EXCEPT !.pc = "done", !.outcome = outcome,
                                   !.result = r.result, !.raised = r.raised,
                                   !.dapr = IF r.raised THEN "error"
                                            ELSE IF r.result THEN "healthy"
                                            ELSE "unhealthy"]
        /\ UNCHANGED <<rateVars, enabled, db, requests, background, pubCall, recurVars,
                       auditVars, notifVars>>

ProbeNext ==
    \/ backend_lifespan
    \/ get_backend_health
    \/ check_health_returns
    \/ publish_call
    \/ post_response

SpecProbe == InitProbe /\ [][ProbeNext]_vars

(***************************************************************************)
(* The rate limiter of the chat route (backend/app/middleware/             *)
(* rate_limit.py).  Time is counted in whole seconds; the limiter's two     *)
(* parameters are scaled down from 30 requests per 60 seconds.             *)
(***************************************************************************)
max_requests == 2
window_seconds == 2
MaxClock == 4

\* RateLimiter.__init__: no user has a list yet (a defaultdict: an absent key
\* reads as the empty list)
RateLimiter == [requests |-> [u \in Users |-> <<>>]]

\* RateLimiter._cleanup_old_requests
cleanup_old_requests(rl, user_id, current_time) ==
    LET cutoff_time == current_time - window_seconds
        Recent(timestamp) == timestamp > cutoff_time
    IN [rl EXCEPT !.requests[user_id] = SelectSeq(@, Recent)]

\* check_rate_limit refusing only above the limit
CheckRateLimitAboveOnly(rl, user_id, current_time) ==
    LET rl2 == cleanup_old_requests(rl, user_id, current_time)
    IN IF Len(rl2.requests[user_id]) > max_requests
       THEN [allowed |-> FALSE, limiter |-> rl2]
       ELSE [allowed |-> TRUE,
             limiter |-> [rl2 EXCEPT !.requests[user_id] = Append(@, current_time)]]

\* RateLimiter.check_rate_limit: the value returned and the limiter afterwards
check_rate_limit(rl, user_id, current_time) ==
    LET rl2 == cleanup_old_requests(rl, user_id, current_time)
    IN IF Len(rl2.requests[user_id]) >= max_requests
       THEN [allowed |-> FALSE, limiter |-> rl2]
       ELSE [allowed |-> TRUE,
             limiter |-> [rl2 EXCEPT !.requests[user_id] = Append(@, current_time)]]

\* min(self.requests[user_id]) of a non-empty list
Oldest(list) == CHOOSE t \in {list[i] : i \in 1..Len(list)} :
                    \A i \in 1..Len(list) : t <= list[i]

\* RateLimiter.get_retry_after
get_retry_after(rl, user_id, current_time) ==
    IF rl.requests[user_id] = <<>> THEN 0
    ELSE LET reset_time == Oldest(rl.requests[user_id]) + window_seconds
         IN IF reset_time - current_time > 0 THEN reset_time - current_time ELSE 0

\* what a call of rate_limit_check did: status_code 0 when it returned None,
\* 429 with the Retry-After header when it raised
NoCheck == [user_id |-> "", time |-> 0, status_code |-> 0, retry_after |-> <<>>]

\* rate_limit_check: the outcome and the limiter afterwards
rate_limit_check(rl, user_id, current_time) ==
    LET r == check_rate_limit(rl, user_id, current_time)
    IN IF ~r.allowed
       THEN [limiter |-> r.limiter,
             outcome |-> [user_id |-> user_id, time |-> current_time,
                          status_code |-> 429,
                          retry_after |->
                              <<get_retry_after(r.limiter, user_id, current_time)>>]]
       ELSE [limiter |-> r.limiter,
             outcome |-> [user_id |-> user_id, time |-> current_time,
                          status_code |-> 0, retry_after |-> <<>>]]

InitRate ==
    /\ store = EmptyStore
    /\ tasks = <<>>
    /\ nextId = Cardinality(BaseTasks) + 1
    /\ spawnedBy = {}
    /\ recurLast = Last("init", NoEvent, "", {}, 0, 0, EmptyStore, FALSE)
    /\ calc = <<>>
    /\ startup = ""
    /\ engine = TRUE
    /\ auditLog = <<>>
    /\ auditDelivered = <<>>
    /\ auditReply = <<>>
    /\ parsed = <<>>
    /\ active_connections = <<>>
    /\ wsState = <<>>
    /\ jobs = <<>>
    /\ received = <<>>
    /\ enabled = TRUE
    /\ db = <<>>
    /\ requests = <<>>
    /\ background = <<>>
    /\ pubCall = <<>>
    /\ probe = <<>>
    /\ chat_rate_limiter = RateLimiter
    /\ clock = 0
    /\ rateLog = [accepted |-> [u \in Users |-> <<>>], last |-> NoCheck]

\* POST /api/{user_id}/chat by the authenticated user, up to the rate limit
\* check (the route is a coroutine and the check has no await: it runs whole)
send_chat_message ==
    \E user_id \in Users :
        LET r == rate_limit_check(chat_rate_limiter, user_id, clock)
        IN /\ chat_rate_limiter' = r.limiter
           /\ rateLog' = [accepted |->
                             IF r.outcome.status_code = 429 THEN rateLog.accepted
                             ELSE [rateLog.accepted EXCEPT ![user_id] = Append(@, clock)],
                          last |-> r.outcome]
           /\ UNCHANGED <<clock, enabled, db, requests, background, pubCall, probe,
                          recurVars, auditVars, notifVars>>

\* a second passes
time_passes ==
    /\ clock < MaxClock
    /\ clock' = clock + 1
    /\ UNCHANGED <<chat_rate_limiter, rateLog, enabled, db, requests, background,
                   pubCall, probe, recurVars, auditVars, notifVars>>

RateNext ==
    \/ send_chat_message
    \/ time_passes

SpecRate == InitRate /\ [][RateNext]_vars

(***************************************************************************)
(* Properties of the recurrence consumer (SpecRecur).                      *)
(***************************************************************************)
\* C1: once a task.completed event for task t has been handled and its next
\* occurrence created, a redelivery of that event finds no recurrence state at
\* t's key and calls the task-creation API zero more times.
C1_RedeliveryIsNoOp ==
    (recurLast.op = "deliver" /\ recurLast.redelivery)
        => /\ recurLast.before[recurLast.event.task_id] = NoState
           /\ recurLast.createCalls = 0

\* C2: after the handler has spawned the next occurrence for completed task t
\* (the state store answering), recurrence state is present at the new task's id
\* with occurrences_created one more than before, and none remains at t's id.
C2_StateRekeyed ==
    (recurLast.op = "deliver" /\ recurLast.created # 0
     /\ "state_store" \notin recurLast.raised)
        => /\ store[recurLast.created] # NoState
           /\ store[recurLast.created].config.occurrences_created
                = recurLast.before[recurLast.event.task_id].config.occurrences_created + 1
           /\ store[recurLast.event.task_id] = NoState

\* C3: when a completion event finds active recurrence state, no end condition is
\* reached and the task-creation call fails (non-201 answer or exception), the
\* delivery is answered RETRY.
C3_CreateFailureAnswersRetry ==
    (recurLast.op = "deliver" /\ recurLast.createCalls = 1 /\ recurLast.created = 0)
        => recurLast.status = "RETRY"

\* C4: when the task-creation call fails while a completion event is handled,
\* the recurrence state store is exactly as it was before the delivery: no key
\* written, re-keyed or deleted, occurrences_created not incremented.
C4_CreateFailureKeepsStore ==
    (recurLast.op = "deliver" /\ recurLast.createCalls = 1 /\ recurLast.created = 0)
        => store = recurLast.before

C4_Witness ==
    /\ recurLast.op = "deliver" /\ recurLast.createCalls = 1 /\ recurLast.created = 0
    /\ recurLast.before[recurLast.event.task_id] # NoState
    /\ store[recurLast.event.task_id] # NoState


\* the delivered event is one the handler processes, and state is present at
\* the completed task's id
Governed(e, st) ==
    /\ ~e.malformed
    /\ e.type = "task.completed" /\ e.completed
    /\ e.task_id # 0
    /\ st[e.task_id] # NoState

\* C16: the handler calls the task-creation API or changes the state store only
\* for a task.completed event with completed = true and state present at the
\* completed task's id; every other event delivered is answered SUCCESS, with no
\* creation call and the store as it was.
C16_OnlyGovernedCompletionsAct ==
    recurLast.op = "deliver"
        => /\ (recurLast.createCalls > 0 \/ store # recurLast.before)
                => Governed(recurLast.event, recurLast.before)
           /\ (~recurLast.event.malformed
               /\ ~Governed(recurLast.event, recurLast.before))
                => /\ recurLast.status = "SUCCESS"
                   /\ recurLast.createCalls = 0
                   /\ store = recurLast.before

\* a task.uncompleted event for a task that has recurrence state
C16_Witness ==
    /\ recurLast.op = "deliver"
    /\ recurLast.event.type = "task.uncompleted"
    /\ recurLast.before[recurLast.event.task_id] # NoState
    /\ recurLast.status = "SUCCESS"
    /\ store = recurLast.before

\* the state the handler read for the delivered completion event
StateRead == recurLast.before[recurLast.event.task_id]

\* a completion event was handled, its state read, and the store answered
\* every call
CompletionHandled ==
    /\ recurLast.op = "deliver"
    /\ Governed(recurLast.event, recurLast.before)
    /\ recurLast.event.user_id # ""
    /\ "state_store" \notin recurLast.raised
    /\ "parse" \notin recurLast.raised

\* C17: when a completion event finds state whose end date exists and is before
\* today, or whose max_occurrences exists and occurrences_created has reached
\* it, the state at the task's id is deleted and no task is created.
C17_EndConditionDeletesState ==
    (/\ CompletionHandled
     /\ \/ /\ StateRead.config.end_date # NoDate
           /\ DateLT(StateRead.config.end_date, Today)
        \/ /\ StateRead.config.max_occurrences # NoMax
           /\ StateRead.config.occurrences_created
                >= StateRead.config.max_occurrences)
        => /\ store[recurLast.event.task_id] = NoState
           /\ recurLast.createCalls = 0
           /\ recurLast.created = 0

DayNumber(d) ==
    LET y == d[1] - 1
        before == [m \in 1..12 |->
                     IF m = 1 THEN 0
                     ELSE IF m = 2 THEN 31
                     ELSE (IF IsLeap(d[1]) THEN 1 ELSE 0)
                          + <<0, 0, 59, 90, 120, 151, 181, 212, 243, 273, 304, 334>>[m]]
    IN 365 * y + (y \div 4) - (y \div 100) + (y \div 400) + before[d[2]] + d[3]

MonthNumber(d) == d[1] * 12 + d[2] - 1

IsDate(d) ==
    /\ d[2] \in 1..12
    /\ d[3] \in 1..DaysInMonth(d[1], d[2])

\* the day of month kept, or the target month's last day when it has fewer days
DayKeptOrClamped(d, r) ==
    \/ r[3] = d[3]
    \/ d[3] > DaysInMonth(r[1], r[2]) /\ r[3] = DaysInMonth(r[1], r[2])

\* C19: for a due date d and interval k the next due date is d + k days for
\* daily, d + 7k days for weekly, d + 14k days for biweekly, and for monthly and
\* yearly the date k calendar months or years later with the day of month kept
\* or clamped to the target month's last day; weekly, k = 1, 2026-01-01 gives
\* 2026-01-08 and monthly, k = 1, 2026-01-31 gives 2026-02-28.
C19_NextDueDate ==
    calc.pc = "returned"
        => LET d == calc.current_due_date
               k == calc.interval
               r == calc.result
           IN /\ IsDate(r)
              /\ calc.pattern = "daily" => DayNumber(r) = DayNumber(d) + k
              /\ calc.pattern = "weekly" => DayNumber(r) = DayNumber(d) + 7 * k
              /\ calc.pattern = "biweekly" => DayNumber(r) = DayNumber(d) + 14 * k
              /\ calc.pattern = "monthly"
                    => MonthNumber(r) = MonthNumber(d) + k /\ DayKeptOrClamped(d, r)
              /\ calc.pattern = "yearly"
                    => /\ r[1] = d[1] + k /\ r[2] = d[2]
                       /\ DayKeptOrClamped(d, r)
              /\ (calc.pattern = "weekly" /\ k = 1 /\ d = <<2026, 1, 1>>)
                    => r = <<2026, 1, 8>>
              /\ (calc.pattern = "monthly" /\ k = 1 /\ d = <<2026, 1, 31>>)
                    => r = <<2026, 2, 28>>

\* 2026-01-31 plus one month is the last day of February
C19_Witness ==
    /\ calc.pc = "returned"
    /\ calc.pattern = "monthly" /\ calc.interval = 1
    /\ calc.current_due_date = <<2026, 1, 31>>
    /\ calc.result = <<2026, 2, 28>>

(***************************************************************************)
(* Properties of parse_event_to_audit (SpecParse).                         *)
(***************************************************************************)
TaskEventTypes ==
    {"task.created", "task.updated", "task.deleted", "task.completed",
     "task.uncompleted"}

\* the action a task event type names: the word after "task."
NamedAction(type) ==
    IF type = "task.created" THEN "created"
    ELSE IF type = "task.updated" THEN "updated"
    ELSE IF type = "task.deleted" THEN "deleted"
    ELSE IF type = "task.completed" THEN "completed"
    ELSE "uncompleted"

\* C21: for each enumerated task event type the action of the audit entry is
\* the one the type names: task.created gives created, task.updated updated,
\* task.deleted deleted, task.completed completed, task.uncompleted uncompleted.
C21_ActionNamedByEventType ==
    (parsed.pc = "returned" /\ parsed.event.type \in TaskEventTypes)
        => parsed.audit.action = NamedAction(parsed.event.type)

\* a snapshot column is NULL or holds the dict with these keys taken from `from`
NullOrFrom(column, from, keys) ==
    column # Null => (column[1].from = from /\ column[1].keys = keys)

\* C22: old_data and new_data are populated only for update events, from the
\* event's change-set; for every other event type (created, deleted, completed,
\* uncompleted, reminder) both are null.
C22_SnapshotsOnlyForUpdates ==
    parsed.pc = "returned"
        => IF parsed.event.type = "task.updated"
           THEN /\ NullOrFrom(parsed.audit.old_data, "changes.old", parsed.event.changes)
                /\ NullOrFrom(parsed.audit.new_data, "changes.new", parsed.event.changes)
           ELSE parsed.audit.old_data = Null /\ parsed.audit.new_data = Null

\* C22 (amended): old_data is populated only for update events; new_data is
\* populated for update events and for created events.  An update event with a
\* non-empty change-set has both, holding the old and the new value of every
\* changed field; a created event has new_data holding the event's data (when
\* it has any) and a null old_data; every other event type has both null.
C22_SnapshotsForUpdatesAndCreated ==
    parsed.pc = "returned"
        => LET e == parsed.event
               a == parsed.audit
           IN IF e.type = "task.updated"
              THEN /\ (a.old_data # Null) = (e.changes # {})
                   /\ (a.new_data # Null) = (e.changes # {})
                   /\ NullOrFrom(a.old_data, "changes.old", e.changes)
                   /\ NullOrFrom(a.new_data, "changes.new", e.changes)
              ELSE IF e.type = "task.created"
              THEN /\ a.old_data = Null
                   /\ (a.new_data # Null) = (DataKeys(e) # {})
                   /\ NullOrFrom(a.new_data, "data", DataKeys(e))
              ELSE a.old_data = Null /\ a.new_data = Null

\* a created event whose data is recorded as the new snapshot
C22_Witness ==
    /\ parsed.pc = "returned"
    /\ parsed.event.type = "task.created"
    /\ parsed.audit.old_data = Null
    /\ parsed.audit.new_data = <<[from |-> "data", keys |-> {"task_id", "user_id"}]>>

(***************************************************************************)
(* Properties of the audit consumer (SpecAudit).                           *)
(***************************************************************************)
\* every delivery so far was a well-formed envelope handled with the store
\* available (engine connected, insert not failing)
AuditStoreAvailable ==
    /\ engine
    /\ \A i \in 1..Len(auditDelivered) :
          ~auditDelivered[i].event.malformed /\ auditDelivered[i].raised = {}

\* C5: with the store available, after any sequence of N delivered events
\* (duplicates and any order included) the log holds exactly N entries, and the
\* i-th entry carries the event id of the i-th delivery.
C5_OneEntryPerDelivery ==
    AuditStoreAvailable
        => /\ Len(auditLog) = Len(auditDelivered)
           /\ \A i \in 1..Len(auditLog) :
                 auditLog[i].event_id = auditDelivered[i].event.id

\* the same event delivered twice, another one in between, out of order
C5_Witness ==
    /\ AuditStoreAvailable
    /\ Len(auditDelivered) = MaxAuditDeliveries
    /\ Len(auditLog) = MaxAuditDeliveries
    /\ auditDelivered[1].event.id = <<"completed", 1>>
    /\ auditDelivered[2].event.id = <<"created", 1>>
    /\ auditDelivered[Len(auditDelivered)].event.id = <<"completed", 1>>

\* C6: a delivery during which the insert of the audit entry throws is answered
\* RETRY, never SUCCESS.
C6_InsertFailureAnswersRetry ==
    \A i \in 1..Len(auditDelivered) :
        "insert" \in auditDelivered[i].raised => auditDelivered[i].status = "RETRY"


\* C23: every entry a query or the entity-history endpoint returns matches
\* every filter that was supplied; a query filtered by entity_id, for any
\* integer id including 0, returns only entries whose entity_id equals that id.
C23_ReturnedEntriesMatchFilters ==
    (auditReply.op \in {"query", "history"} /\ auditReply.code = 200)
        => \A row \in auditReply.rows :
              LET f == auditReply.filter
              IN /\ f.user_id # <<>> => row.user_id = f.user_id[1]
                 /\ f.entity_type # <<>> => row.entity_type = f.entity_type[1]
                 /\ f.entity_id # <<>> => row.entity_id = f.entity_id
                 /\ f.event_type # <<>> => row.event_type = f.event_type[1]
                 /\ f.action # <<>> => row.action = f.action[1]

\* C24: the audit log is append-only: no step of the audit consumer (a delivery
\* on any topic, a query, the entity history, the statistics, the health check)
\* modifies or deletes an inserted entry, and an entry is added only by a step
\* that is an event delivery.
C24_AppendOnly ==
    [][/\ Len(auditLog') >= Len(auditLog)
       /\ \A i \in 1..Len(auditLog) : auditLog'[i] = auditLog[i]
       /\ auditLog' # auditLog
             => /\ Len(auditDelivered') = Len(auditDelivered) + 1
                /\ auditReply' = auditReply]_vars

\* entries inserted, the statistics read, and another entry inserted afterwards
C24_Witness ==
    /\ Len(auditLog) = MaxAuditDeliveries
    /\ auditReply.op = "stats"
    /\ auditReply.code = 200
    /\ auditReply.total = Len(auditLog) - 1

\* C25: when the store is unconfigured or could not be connected at start-up,
\* the consumer keeps running: every delivered event is answered SUCCESS and no
\* entry is persisted.
C25_DegradedAcceptsWithoutPersisting ==
    startup \in {"unconfigured", "tables_failed"}
        => /\ \A i \in 1..Len(auditDelivered) :
                 ~auditDelivered[i].event.malformed
                     => auditDelivered[i].status = "SUCCESS"
           /\ auditLog = <<>>


\* C10 (recurrence endpoint): every delivery during which an exception was raised
\* (parsing, the state store, the task-creation call) is answered RETRY.
C10_ExceptionsAnswerRetry ==
    (recurLast.op = "deliver" /\ recurLast.raised # {})
        => recurLast.status = "RETRY"

(***************************************************************************)
(* Properties of the notification consumer (SpecNotif).                    *)
(***************************************************************************)
RanSendLoop(j) == jobs[j].pc = "done" /\ jobs[j].start # {}

\* the connections registered and not yet disconnected by their own coroutine
LiveConns(u) ==
    {c \in Conns : UserOf(c) = u /\ wsState[c] \in {"welcome", "open"}}

\* C7: whatever connects and disconnects interleave with a send_to_user that is
\* suspended at a send, the send_to_user completes without raising and its
\* handler answers SUCCESS, and once no delivery is in flight the registry holds
\* exactly the connections connected and neither disconnected nor removed for a
\* failed send.
C7_RegistrySynchronized ==
    /\ \A j \in Jobs :
          RanSendLoop(j) => jobs[j].raised = {} /\ jobs[j].status = "SUCCESS"
    /\ (\A j \in Jobs : jobs[j].pc # "sending")
          => \A u \in Users :
                active_connections[u].conns
                    = LiveConns(u) \ UNION {jobs[j].disconnected : j \in Jobs}

C9_StatusSuccessOrRetry ==
    \A j \in Jobs : jobs[j].pc = "done" => jobs[j].status \in {"SUCCESS", "RETRY"}

\* C20: a delivery of an event whose type has no notification template, or
\* whose data has no user id, is answered SUCCESS and sends no message to any
\* connection.
C20_UnmappedOrAnonymousIsSilentSuccess ==
    \A j \in Jobs :
        (/\ jobs[j].pc = "done"
         /\ ~jobs[j].event.malformed
         /\ \/ jobs[j].event.user_id = ""
            \/ jobs[j].topic = "task-events" /\ TaskNotification(jobs[j].event) = "")
            => /\ jobs[j].status = "SUCCESS"
               /\ jobs[j].start = {}
               /\ jobs[j].sent = {}
               /\ jobs[j].disconnected = {}

\* C29: connect registers the connection under its user id and the welcome
\* send is what its coroutine does next; once the coroutine has ended (client
\* disconnect or any error, a failed welcome send included) the connection is
\* not in the registry, and the user's entry is removed when that was the
\* user's last connection.
C29_ConnectionLifecycle ==
    /\ [](\A c \in Conns :
            /\ wsState[c] = "closed"
                  => c \notin active_connections[UserOf(c)].conns
            /\ (\A k \in Conns : UserOf(k) = UserOf(c)
                                     => wsState[k] \in {"new", "closed"})
                  => ~active_connections[UserOf(c)].present)
    /\ [][\A c \in Conns :
            /\ (wsState[c] = "new" /\ wsState'[c] # "new")
                  => /\ wsState'[c] = "welcome"
                     /\ active_connections'[UserOf(c)].present
                     /\ c \in active_connections'[UserOf(c)].conns
            /\ (wsState[c] # "closed" /\ wsState'[c] = "closed")
                  => /\ c \notin active_connections'[UserOf(c)].conns
                     /\ active_connections'[UserOf(c)].conns = {}
                           => ~active_connections'[UserOf(c)].present]_vars

\* a connection that received a notification and ended, the other one ended by
\* a failed welcome send or a disconnect: the user's entry is gone
C29_Witness ==
    /\ \A c \in Conns : UserOf(c) = "u1" => wsState[c] = "closed"
    /\ \E c \in Conns : UserOf(c) = "u1" /\ received[c] >= 1
    /\ ~active_connections["u1"].present

\* C30: a delivery that calls send_to_user for a user with no registered
\* connection (no entry, or an entry left empty) sends nothing, raises nothing,
\* is answered at once and leaves the registry unchanged.
C30_NoConnectionsIsNoOp ==
    [][\A j \in Jobs :
          (/\ jobs[j].pc = "idle"
           /\ jobs'[j].pc # "idle"
           /\ ~jobs'[j].event.malformed
           /\ jobs'[j].event.user_id # ""
           /\ jobs'[j].topic = "task-events" => TaskNotification(jobs'[j].event) # ""
           /\ active_connections[jobs'[j].event.user_id].conns = {})
              => /\ jobs'[j].pc = "done"
                 /\ jobs'[j].status = "SUCCESS"
                 /\ jobs'[j].raised = {}
                 /\ jobs'[j].sent = {}
                 /\ jobs'[j].disconnected = {}
                 /\ active_connections' = active_connections
                 /\ received' = received]_vars

\* a reminder for a user without connections while another user is connected
C30_Witness ==
    \E j \in Jobs :
        /\ jobs[j].pc = "done"
        /\ jobs[j].topic = "reminders"
        /\ jobs[j].event.user_id = "u2"
        /\ jobs[j].status = "SUCCESS"
        /\ jobs[j].start = {}
        /\ ~active_connections["u2"].present
        /\ active_connections["u1"].present
        /\ \A c \in Conns : received[c] = 0

(***************************************************************************)
(* Properties of the backend: publisher and task routes (SpecBackend).     *)
(***************************************************************************)
\* an attempt of the call received 200 or 204
Got2xx(c) == c.seen \cap {"200", "204"} # {}

\* C11: a call of publish whose attempts all failed (connection failure,
\* timeout, unexpected exception or a status other than 200/204, in any mix)
\* returned False and raised nothing to its caller.
C11_AllAttemptsFailedReturnsFalse ==
    (pubCall.pc = "returned" /\ pubCall.posts >= 1 /\ ~Got2xx(pubCall))
        => pubCall.result = "False" /\ ~pubCall.raised

\* the whole default budget used on three different failures
C11_Witness ==
    /\ pubCall.pc = "returned" /\ pubCall.result = "False"
    /\ pubCall.posts = DefaultRetryCount
    /\ pubCall.seen = {"500", "TimeoutException", "Exception"}

\* C12: a call publish(topic, event, retry_count = n) of an enabled publisher
\* never issues more than n POSTs, and every POST that ends either ends the call
\* or moves it to the next of its n attempts, whatever the gateway answers: the
\* call returns after at most n POSTs.
C12_AtMostRetryCountPosts ==
    /\ [](pubCall.enabled
            => /\ pubCall.posts <= pubCall.retry_count
               /\ pubCall.pc = "posting"
                    => /\ pubCall.attempt < pubCall.retry_count
                       /\ pubCall.posts = pubCall.attempt + 1)
    /\ [][(pubCall.pc = "posting" /\ pubCall' # pubCall)
            => \/ pubCall'.pc = "returned"
               \/ /\ pubCall'.pc = "posting"
                  /\ pubCall'.attempt = pubCall.attempt + 1]_vars

\* the largest budget used up, a timeout among the failures
C12_Witness ==
    /\ pubCall.pc = "returned" /\ pubCall.enabled
    /\ pubCall.retry_count = MaxRetryCount
    /\ pubCall.posts = MaxRetryCount
    /\ "TimeoutException" \in pubCall.seen

\* C13: with publishing disabled no POST is ever issued, and every call of
\* publish, whatever its topic and event, returned True.
C13_DisabledReturnsTrueWithoutPost ==
    ~enabled
        => /\ pubCall.posts = 0
           /\ pubCall.pc \notin {"idle", "aborted"}
                => /\ pubCall.pc = "returned"
                   /\ pubCall.result = "True"
                   /\ ~pubCall.raised

C13_Witness ==
    /\ ~enabled
    /\ pubCall.pc = "returned" /\ pubCall.result = "True" /\ pubCall.posts = 0
    /\ pubCall.topic = "reminders"
    /\ pubCall.retry_count = 0

\* what C14 says of a returned call c
TrueExactlyOn2xx(c) ==
    /\ c.result = "True" <=> Got2xx(c)
    /\ Got2xx(c) => c.posts = c.failed + 1
    /\ ~Got2xx(c) => c.failed = c.retry_count /\ c.posts = c.retry_count

\* C14 as stated: every call of publish returned True exactly when one of its
\* attempts received 200 or 204, returned at the first such response, and
\* otherwise used its whole budget, every other status counting as one failed
\* attempt.
C14_TrueExactlyOn2xx ==
    (pubCall.pc = "returned" /\ ~pubCall.raised) => TrueExactlyOn2xx(pubCall)

\* C14 amended: the same of every call of an enabled publisher.
C14_EnabledTrueExactlyOn2xx ==
    (pubCall.pc = "returned" /\ ~pubCall.raised /\ pubCall.enabled)
        => TrueExactlyOn2xx(pubCall)

\* a 500 answer retried, then 204
C14_Witness ==
    /\ pubCall.pc = "returned" /\ pubCall.enabled /\ pubCall.result = "True"
    /\ pubCall.posts = 2 /\ pubCall.failed = 1
    /\ pubCall.seen = {"500", "204"}

\* the row of the task of request q as the table has it now
RowNow(q) == IF q.task_id \in 1..Len(db) THEN db[q.task_id] ELSE DeletedRow

\* C15: every background publication, waiting, in progress or ended, belongs to
\* a create, update, toggle or delete request whose commit returned and whose
\* response was the success response; while no later request was handled the
\* task is as committed and as returned; and no step of a publication
\* changes the task table or a response.
C15_PublishAfterCommitNeverFatal ==
    /\ [](/\ \A i \in 1..Len(background) : requests[background[i].req].committed
          /\ pubCall.caller = "background"
               => /\ requests[pubCall.req].committed
                  /\ requests[pubCall.req].code \in {200, 201, 204}
                  /\ pubCall.req = Len(requests)
                       => RowNow(requests[pubCall.req]) = requests[pubCall.req].body)
    /\ [][pubCall' # pubCall => (db' = db /\ requests' = requests)]_vars

\* the publication of a toggle's event returned False after the default budget
C15_Witness ==
    /\ pubCall.caller = "background" /\ pubCall.pc = "returned"
    /\ pubCall.result = "False" /\ pubCall.posts = DefaultRetryCount
    /\ pubCall.req = Len(requests)
    /\ requests[pubCall.req].op = "toggle"
    /\ requests[pubCall.req].code = 200
    /\ db[requests[pubCall.req].task_id].completed

\* C26: an event serialized with to_dict and parsed back into an envelope has
\* the same type, data and id as the event (checked on the payload of every
\* publish call).
C26_RoundTrip ==
    pubCall.payload # <<>>
        => LET parsedBack == FromDict(pubCall.payload)
               ev == TaskEvent(pubCall.event)
           IN /\ ~parsedBack.rejected
              /\ parsedBack.event.type = ev.type
              /\ parsedBack.event.data = ev.data
              /\ parsedBack.event.id = ev.id

\* the task.updated event of an update request, with its change-set
C26_Witness ==
    /\ pubCall.payload # <<>>
    /\ pubCall.event.type = "task.updated"
    /\ pubCall.event.changes = {"title", "completed"}
    /\ FromDict(pubCall.payload).event.data.changes = {"title", "completed"}

\* C27: every envelope that is constructed (here: handed to publish) has a type
\* that is one of the seven enumerated event type strings; any other type
\* string is rejected at construction.
C27_TypeIsEnumerated ==
    pubCall.pc \in {"posting", "returned"} => pubCall.event.type \in EventType

\* C28: all the POSTs of one publish call carry the identical envelope, the
\* one of the event passed in (same id, type, time and data); a retry never
\* carries a new event id.
C28_AttemptsCarrySameEnvelope ==
    /\ pubCall.sent \subseteq {to_dict(TaskEvent(pubCall.event))}
    /\ \A body \in pubCall.sent :
          /\ Get(body, "id") = pubCall.event.id
          /\ Get(body, "type") = pubCall.event.type
          /\ Get(body, "time") = TaskEvent(pubCall.event).time
          /\ Get(body, "data") = TaskEvent(pubCall.event).data
    /\ pubCall.posts >= 1 => pubCall.sent # {}

\* a call that posted on every attempt of its budget and gave up
C28_Witness ==
    /\ pubCall.pc = "returned"
    /\ pubCall.result = "False"
    /\ pubCall.posts = DefaultRetryCount
    /\ pubCall.event.type = "task.completed"
    /\ Cardinality(pubCall.sent) = 1

(***************************************************************************)
(* Properties of the publisher's health probe (SpecProbe).                 *)
(***************************************************************************)
\* C31: check_health returns True only when the gateway's health endpoint
\* answers 200 and returns False, raising nothing, on any other status or
\* exception; no step changes the enabled flag; a step of check_health leaves
\* the publish call as it is, and a step of publish leaves the probe as it is
\* (publish goes on while a probe is awaited).
C31_ProbeReadsOnly ==
    /\ [](probe.pc = "done" /\ probe.outcome # ""
            => /\ probe.result = (probe.outcome = "200")
               /\ ~probe.raised)
    /\ [][/\ enabled' = enabled
          /\ probe' # probe => pubCall' = pubCall
          /\ pubCall' # pubCall => probe' = probe]_vars

\* the probe of GET /health was answered 204 and returned False; the publisher
\* is enabled as before and a publish call has posted
C31_Witness ==
    /\ probe.pc = "done"
    /\ probe.caller = "health"
    /\ probe.outcome = "204"
    /\ probe.result = FALSE
    /\ pubCall.pc = "returned"
    /\ pubCall.posts >= 1
    /\ enabled

\* C38: when the probe lifespan made at start-up found the sidecar
\* unavailable, every later publish call returns without a network attempt.
C38_UnhealthyStartupDisablesPublishing ==
    probe.is_healthy = "False" => pubCall.posts = 0

\* C32: a POST /recurrence that answers "ok" leaves, under the request's
\* task_id, a state holding exactly the request's pattern, interval, end_date,
\* max_occurrences and task_data with occurrences_created = 0, whatever was
\* stored under that key before; no other key of the store changes.
C32_RegistrationStoresRequest ==
    (recurLast.op = "set_recurrence" /\ recurLast.status = "ok")
        => LET req == recurLast.request
               registered ==
                   [config |-> [pattern |-> req.pattern, interval |-> req.interval,
                                end_date |-> req.end_date,
                                max_occurrences |-> req.max_occurrences,
                                occurrences_created |-> 0],
                    task_data |-> req.task_data, parent_task_id |-> 0]
           IN store = [recurLast.before EXCEPT ![recurLast.task_id] = registered]

\* a registration that replaced a different state stored under the same key
C32_Witness ==
    /\ recurLast.op = "set_recurrence" /\ recurLast.status = "ok"
    /\ recurLast.before[recurLast.task_id] # NoState
    /\ recurLast.before[recurLast.task_id].config.pattern # recurLast.request.pattern
    /\ store[recurLast.task_id].config.pattern = recurLast.request.pattern
    /\ store[recurLast.task_id].config.occurrences_created = 0

\* C36: a recurrence registered with max_occurrences = N creates at most N
\* tasks, whatever task.completed deliveries follow. Stated for N = 1 and two
\* deliveries in a row: once a delivery has created the one occurrence of a
\* registration with max_occurrences = 1 (the state read had occurrences_created
\* = 0), the next delivery for a task of that chain, no registration coming
\* between the two and every call to the state store answered, creates nothing.
C36_OccurrencesBounded ==
    [][(/\ recurLast.op = "deliver" /\ recurLast.created # 0
        /\ recurLast.raised = {} /\ recurLast'.raised = {}
        /\ recurLast.before[recurLast.event.task_id] # NoState
        /\ recurLast.before[recurLast.event.task_id].config.max_occurrences = 1
        /\ recurLast.before[recurLast.event.task_id].config.occurrences_created = 0
        /\ recurLast'.op = "deliver"
        /\ recurLast'.event.task_id \in {recurLast.event.task_id, recurLast.created})
            => recurLast'.created = 0]_vars

\* C39: for every pattern and every interval a registration may carry
\* (SetRecurrenceRequest declares interval as a plain int), the next due date
\* is strictly later than the current one.
C39_NextDueStrictlyLater ==
    calc.pc = "returned" => DateLT(calc.current_due_date, calc.result)

\* C34: every key of active_connections maps to a non-empty set, and the
\* connected_users GET /status reports is the number of users with at least one
\* registered connection.
C34_KeysHaveConnections ==
    /\ \A u \in Users : active_connections[u].present
                            => active_connections[u].conns # {}
    /\ get_status(active_connections).connected_users
         = Cardinality({u \in Users : active_connections[u].conns # {}})

\* the events the gateway delivers on a topic
DeliveredOn(topic) ==
    IF topic = "task-events" THEN NotifTaskEvents
    ELSE IF topic = "reminders" THEN NotifReminderEvents
    ELSE NotifUpdateEvents

\* C35: whenever a delivery for user u starts or proceeds, the messages it
\* sends (and the sends that raise) go to connections opened by u, no
\* connection of another user receives anything, and no other user's entry of
\* active_connections changes.
C35_OtherUsersUntouched ==
    [][\A j \in Jobs :
          jobs'[j] # jobs[j]
              => LET u == jobs'[j].event.user_id
                 IN /\ jobs'[j].event \in DeliveredOn(jobs'[j].topic)
                    /\ \A c \in jobs'[j].sent \cup jobs'[j].disconnected
                                \cup (jobs'[j].visited \ {0}) : UserOf(c) = u
                    /\ \A c \in IsoConns :
                           UserOf(c) # u => received'[c] = received[c]
                    /\ \A v \in Users \ {u} :
                           active_connections'[v] = active_connections[v]]_vars

\* a notification for u1 was sent to a connection of u1 while u2 has a
\* registered connection that has received nothing
C35_Witness ==
    \E j \in Jobs, c \in IsoConns :
        /\ jobs[j].pc = "done" /\ jobs[j].event.user_id = "u1"
        /\ jobs[j].sent # {}
        /\ UserOf(c) = "u2"
        /\ active_connections["u2"] = Entry({c})
        /\ received[c] = 0
        /\ \E k \in jobs[j].sent : received[k] = 1

\* C37: the background task a committed PUT /api/tasks/{id} adds carries a
\* task.completed event exactly when the update changed the row's completed
\* flag from false to true, and a task.uncompleted event exactly when it
\* changed it from true to false, whichever of completed and status the body
\* supplied.
C37_CompletionEventFollowsFlag ==
    [][(/\ Len(requests') = Len(requests) + 1
        /\ requests'[Len(requests')].op = "update"
        /\ requests'[Len(requests')].committed)
            => LET id == requests'[Len(requests')].task_id
                   was == db[id].completed
                   now == db'[id].completed
                   added == background'[Len(background')].events
                   types == {added[i].type : i \in 1..Len(added)}
               IN /\ Len(background') = Len(background) + 1
                  /\ "task.completed" \in types <=> (~was /\ now)
                  /\ "task.uncompleted" \in types <=> (was /\ ~now)]_vars

\* the requests of a user that passed the limiter at a time t with lo <= t < hi
AcceptedIn(user_id, lo, hi) ==
    Cardinality({i \in 1..Len(rateLog.accepted[user_id]) :
                    /\ lo <= rateLog.accepted[user_id][i]
                    /\ rateLog.accepted[user_id][i] < hi})

\* C33: for each user, no window of window_seconds holds more than
\* max_requests accepted requests; a request arriving while the window ending
\* now already holds max_requests accepted ones is answered 429 with a
\* Retry-After header, and only then; a rejected request leaves the user's
\* quota as it was; and a request of one user changes nothing of another's.
C33_SlidingWindowLimit ==
    /\ [](\A u \in Users, a \in 0..MaxClock :
              AcceptedIn(u, a, a + window_seconds) <= max_requests)
    /\ [][(clock' = clock /\ <<chat_rate_limiter, rateLog>>' # <<chat_rate_limiter, rateLog>>)
            => LET u == rateLog'.last.user_id
                   used == AcceptedIn(u, clock - window_seconds + 1, clock + 1)
                   rejected == rateLog'.last.status_code = 429
               IN /\ rejected <=> used >= max_requests
                  /\ rejected => /\ rateLog'.last.retry_after # <<>>
                                  /\ rateLog'.last.retry_after[1] \in 0..window_seconds
                                  /\ rateLog'.accepted = rateLog.accepted
                  /\ ~rejected => /\ rateLog'.last.retry_after = <<>>
                                   /\ rateLog'.accepted[u]
                                        = Append(rateLog.accepted[u], clock)
                  /\ Len(chat_rate_limiter'.requests[u])
                       = used + (IF rejected THEN 0 ELSE 1)
                  /\ \A v \in Users \ {u} :
                        /\ chat_rate_limiter'.requests[v] = chat_rate_limiter.requests[v]
                        /\ rateLog'.accepted[v] = rateLog.accepted[v]]_vars

\* u1 was just refused with its window full, after earlier requests of u1 had
\* left the window and been replaced, while u2 was served at the same second
C33_Witness ==
    /\ rateLog.last.user_id = "u1" /\ rateLog.last.status_code = 429
    /\ Len(rateLog.accepted["u1"]) > max_requests
    /\ AcceptedIn("u1", clock - window_seconds + 1, clock + 1) = max_requests
    /\ AcceptedIn("u2", clock, clock + 1) >= 1
====
